---- MODULE Spec2Model ----
(***************************************************************************)
(* Model of the teraspot ingestion pipeline (backend/lambdas/ingest_status)*)
(* and of its validation and alert helpers.                                *)
(*                                                                         *)
(* Python values are records [t, s, n]: t is the Python type, s the        *)
(* content of a str as a sequence of characters (or of lexical tokens for  *)
(* timestamps), n the number.  A float is held in hundredths (0.8 is 80);  *)
(* an int and a bool hold their own value.  Absent marks a key that is not *)
(* in a dict.                                                              *)
(***************************************************************************)
EXTENDS Integers, Sequences, FiniteSets, TLC

VARIABLES
    qa_in, qa_out,                       \* validate_data: the call's arguments, its result
    ga_items, ga_stats, ga_out, ga_pc,   \* generate_alerts: arguments, result, position
    ih_event,       \* lambda_handler: the event it is invoked with
    ih_pc,          \* "idle", "ready" (invoked, not yet run) or "done"
    ih_resp,        \* the response it returned
    cur_table,      \* the current-state table: space_id -> item
    hist_table,     \* the history table: a set of items
    sqs_log,        \* the send_message calls of the invocation, in order
    put_failed,     \* the put_item calls of the invocation that raised
    cur_before,     \* the current-state table when the invocation started
    pe_raw, pe_out, pe_pc,               \* parse_events: argument, result, position
    pip_point, pip_polygon, pip_out, pip_pc,   \* point_in_polygon: arguments, result, position
    roi_spaces, roi_op, roi_arg, roi_raised, roi_before, roi_occupancy, roi_report,   \* YOLOProcessor: _roi_spaces, and the last call on it
    vid_frames, vid_skip, vid_pos, vid_call,   \* video capture: frame count, frame_skip, position, the last _read_video_frame
    st_last, st_before, st_snapshot, st_changes, st_again, st_pc,   \* SpaceStateTracker: _last_states, and the last detect_changes
    st_emitted, st_recent, st_repeated,   \* per space, the status of the last change emitted and of the last snapshot holding it; a change repeated a status
    da_alerts, da_low_queue, da_alerts_queue, da_failing, da_calls, da_dlq, da_raised, da_pc,   \* dispatch_alerts: arguments, the sends that raise, the send_message calls made, the messages handed to sendMessageDLQ, outcome
    sc_table, sc_key, sc_resp, sc_occupied, sc_total, sc_counted, sc_pc,   \* current_occupancy: the scanned table, exclusive_start_key, the last scan response, the counters, the items counted, position
    ep_iterations, ep_iteration, ep_last, ep_cycle, ep_cycles, ep_pc,   \* edge publisher main loop: args.iterations, iteration, the tracker's cache, the last cycle (cache before, snapshot, changes, publishes), cycles run, position
    cc_items, cc_pc, cc_entry, cc_order    \* concurrent invocations on one space: the item each puts, each one's position, the current-state entry, the puts done in order

qaVars == <<qa_in, qa_out>>
gaVars == <<ga_items, ga_stats, ga_out, ga_pc>>
ihVars == <<ih_event, ih_pc, ih_resp, cur_table, hist_table, sqs_log, put_failed, cur_before>>
peVars == <<pe_raw, pe_out, pe_pc>>
pipVars == <<pip_point, pip_polygon, pip_out, pip_pc>>
roiVars == <<roi_spaces, roi_op, roi_arg, roi_raised, roi_before, roi_occupancy, roi_report>>
vidVars == <<vid_frames, vid_skip, vid_pos, vid_call>>
stVars == <<st_last, st_before, st_snapshot, st_changes, st_again, st_pc, st_emitted, st_recent, st_repeated>>
daVars == <<da_alerts, da_low_queue, da_alerts_queue, da_failing, da_calls, da_dlq, da_raised, da_pc>>
scVars == <<sc_table, sc_key, sc_resp, sc_occupied, sc_total, sc_counted, sc_pc>>
epVars == <<ep_iterations, ep_iteration, ep_last, ep_cycle, ep_cycles, ep_pc>>
ccVars == <<cc_items, cc_pc, cc_entry, cc_order>>
vars == <<qa_in, qa_out, ga_items, ga_stats, ga_out, ga_pc,
          ih_event, ih_pc, ih_resp, cur_table, hist_table, sqs_log, put_failed, cur_before,
          pe_raw, pe_out, pe_pc,
          pip_point, pip_polygon, pip_out, pip_pc,
          roi_spaces, roi_op, roi_arg, roi_raised, roi_before, roi_occupancy, roi_report,
          vid_frames, vid_skip, vid_pos, vid_call,
          st_last, st_before, st_snapshot, st_changes, st_again, st_pc,
          st_emitted, st_recent, st_repeated,
          da_alerts, da_low_queue, da_alerts_queue, da_failing, da_calls, da_dlq, da_raised, da_pc,
          sc_table, sc_key, sc_resp, sc_occupied, sc_total, sc_counted, sc_pc,
          ep_iterations, ep_iteration, ep_last, ep_cycle, ep_cycles, ep_pc,
          cc_items, cc_pc, cc_entry, cc_order>>

\* the variables of every component but one
exceptQA == <<gaVars, ihVars, peVars, pipVars, roiVars, vidVars, stVars, daVars, scVars, epVars, ccVars>>
exceptGA == <<qaVars, ihVars, peVars, pipVars, roiVars, vidVars, stVars, daVars, scVars, epVars, ccVars>>
exceptIH == <<qaVars, gaVars, peVars, pipVars, roiVars, vidVars, stVars, daVars, scVars, epVars, ccVars>>
exceptPE == <<qaVars, gaVars, ihVars, pipVars, roiVars, vidVars, stVars, daVars, scVars, epVars, ccVars>>
exceptPIP == <<qaVars, gaVars, ihVars, peVars, roiVars, vidVars, stVars, daVars, scVars, epVars, ccVars>>
exceptROI == <<qaVars, gaVars, ihVars, peVars, pipVars, vidVars, stVars, daVars, scVars, epVars, ccVars>>
exceptVID == <<qaVars, gaVars, ihVars, peVars, pipVars, roiVars, stVars, daVars, scVars, epVars, ccVars>>
exceptST == <<qaVars, gaVars, ihVars, peVars, pipVars, roiVars, vidVars, daVars, scVars, epVars, ccVars>>
exceptDA == <<qaVars, gaVars, ihVars, peVars, pipVars, roiVars, vidVars, stVars, scVars, epVars, ccVars>>
exceptSC == <<qaVars, gaVars, ihVars, peVars, pipVars, roiVars, vidVars, stVars, daVars, epVars, ccVars>>
exceptEP == <<qaVars, gaVars, ihVars, peVars, pipVars, roiVars, vidVars, stVars, daVars, scVars, ccVars>>
exceptCC == <<qaVars, gaVars, ihVars, peVars, pipVars, roiVars, vidVars, stVars, daVars, scVars, epVars>>

\* ------------------------------------------------------------ Python values

Absent == [t |-> "absent", s |-> <<>>, n |-> 0]
None == [t |-> "NoneType", s |-> <<>>, n |-> 0]
PyStr(chars) == [t |-> "str", s |-> chars, n |-> 0]
PyInt(k) == [t |-> "int", s |-> <<>>, n |-> k]
PyFloat(hundredths) == [t |-> "float", s |-> <<>>, n |-> hundredths]
PyBool(b) == [t |-> "bool", s |-> <<>>, n |-> IF b THEN 1 ELSE 0]

\* dict.get(key, default)
Get(d, key, default) == IF d[key] = Absent THEN default ELSE d[key]

\* isinstance(v, (int, float)): bool is a subclass of int
IsIntOrFloat(v) == v.t \in {"int", "float", "bool"}

\* float(v) of an int, a bool or a float, in hundredths
ToFloat(v) == IF v.t = "float" THEN v.n ELSE v.n * 100

\* Python truthiness: `not v`
Falsy(v) ==
    \/ v.t = "NoneType"
    \/ v.t = "str" /\ v.s = <<>>
    \/ v.t \in {"int", "float", "bool"} /\ v.n = 0

LowerLetters == <<"a", "c", "d", "e", "f", "i", "l", "n", "o", "p", "t", "u", "v">>
UpperLetters == <<"A", "C", "D", "E", "F", "I", "L", "N", "O", "P", "T", "U", "V">>

lower_identity(chars) == chars

\* str.lower(): every upper-case letter becomes its lower-case letter
lower(chars) ==
    [i \in DOMAIN chars |->
        IF \E k \in DOMAIN UpperLetters : UpperLetters[k] = chars[i]
        THEN LowerLetters[CHOOSE k \in DOMAIN UpperLetters : UpperLetters[k] = chars[i]]
        ELSE chars[i]]

\* str(v), for the values a status can hold
Str(v) ==
    CASE v.t = "str" -> v.s
      [] v.t = "NoneType" -> <<"N", "o", "n", "e">>
      [] v.t = "bool" -> IF v.n = 1 THEN <<"T", "r", "u", "e">> ELSE <<"F", "a", "l", "s", "e">>
      [] OTHER -> <<"#">>

\* str.replace("Z", "+00:00") on a timestamp held as a sequence of tokens
ReplaceZ(tokens) ==
    [i \in DOMAIN tokens |-> IF tokens[i] = "Z" THEN "+00:00" ELSE tokens[i]]

\* "utcnow" stands for the text datetime.utcnow().isoformat() gives
DateTimeBodies == {"2025-11-03T21:36:00", "2025-11-03", "utcnow"}
Offsets == {"+00:00", "-06:00"}

\* datetime.fromisoformat(tokens) does not raise
FromIsoFormatOk(tokens) ==
    \/ Len(tokens) = 1 /\ tokens[1] \in DateTimeBodies
    \/ Len(tokens) = 2 /\ tokens[1] \in DateTimeBodies /\ tokens[2] \in Offsets

\* ------------------------------------------------------------ qa.py

NoReason == [kind |-> "", s |-> <<>>, n |-> 0]
Accept == [ok |-> TRUE, reason |-> NoReason]
Reject(kind, chars, num) == [ok |-> FALSE, reason |-> [kind |-> kind, s |-> chars, n |-> num]]

\* qa._parse_timestamp raises ValueError
parse_timestamp_raises(value) ==
    IF Falsy(value) THEN FALSE
    ELSE IF value.t # "str" THEN TRUE   \* value.replace raises, caught by `except Exception`
    ELSE ~FromIsoFormatOk(ReplaceZ(value.s))

ConfidenceInRange_strict(c) == 0 < c /\ c <= 100

\* 0 <= confidence_value <= 1
ConfidenceInRange(c) == 0 <= c /\ c <= 100

validate_data_statusFirst(space_id, data) ==
    IF space_id.t # "str" \/ space_id.s = <<>> THEN Reject("Missing space_id", <<>>, 0)
    ELSE
    LET confidence == Get(data, "confidence", None)
        status == lower(Str(Get(data, "status", PyStr(<<>>))))
    IN  IF status \notin {<<"o","c","c","u","p","i","e","d">>, <<"v","a","c","a","n","t">>}
        THEN Reject("Invalid status", status, 0)
        ELSE IF ~IsIntOrFloat(confidence) THEN Reject("Invalid confidence type", <<>>, 0)
        ELSE IF ~ConfidenceInRange(ToFloat(confidence))
        THEN Reject("Confidence out of range", <<>>, ToFloat(confidence))
        ELSE IF parse_timestamp_raises(Get(data, "timestamp", None))
        THEN Reject("Invalid timestamp", <<>>, 0)
        ELSE Accept

\* qa.validate_data(space_id, data) -> (ok, reason)
validate_data(space_id, data) ==
    IF space_id.t # "str" \/ space_id.s = <<>> THEN Reject("Missing space_id", <<>>, 0)
    ELSE
    LET confidence == Get(data, "confidence", None)
    IN  IF ~IsIntOrFloat(confidence) THEN Reject("Invalid confidence type", <<>>, 0)
        ELSE
        LET confidence_value == ToFloat(confidence)
        IN  IF ~ConfidenceInRange(confidence_value)
            THEN Reject("Confidence out of range", <<>>, confidence_value)
            ELSE
            LET status == lower(Str(Get(data, "status", PyStr(<<>>))))
            IN  IF status \notin {<<"o","c","c","u","p","i","e","d">>, <<"v","a","c","a","n","t">>}
                THEN Reject("Invalid status", status, 0)
                ELSE IF parse_timestamp_raises(Get(data, "timestamp", None))
                THEN Reject("Invalid timestamp", <<>>, 0)
                ELSE Accept

\* ------------------------------------------------------------ alerts.py

LOW_CONFIDENCE_THRESHOLD == 80
CRITICAL_OCCUPANCY == 95
HIGH_OCCUPANCY == 80

\* occupancy_stats is None
NoStats == <<>>

LowConfidenceAlert(item) ==
    [type |-> "LOW_CONFIDENCE", severity |-> "WARNING", space_id |-> item.space_id]
OccupancyAlert(type, severity) ==
    [type |-> type, severity |-> severity, space_id |-> 0]

IsLowConfidence_inclusive(item) == item.confidence <= LOW_CONFIDENCE_THRESHOLD

\* confidence < 0.8
IsLowConfidence(item) == item.confidence < LOW_CONFIDENCE_THRESHOLD

\* the loop over items: one LOW_CONFIDENCE alert per item under the threshold, in order
RECURSIVE LowConfidenceAlerts(_)
LowConfidenceAlerts(items) ==
    IF items = <<>> THEN <<>>
    ELSE (IF IsLowConfidence(Head(items)) THEN <<LowConfidenceAlert(Head(items))>> ELSE <<>>)
         \o LowConfidenceAlerts(Tail(items))

\* occupancy = occupied / total if total else 0;  occupancy >= percent / 100
OccupancyAtLeast(occupied, total, percent) ==
    IF total # 0 THEN occupied * 100 >= percent * total ELSE 0 >= percent

OccupancyAlerts_bothTiers(occupied, total) ==
    (IF OccupancyAtLeast(occupied, total, CRITICAL_OCCUPANCY)
     THEN <<OccupancyAlert("CRITICAL", "CRITICAL")>> ELSE <<>>)
    \o (IF OccupancyAtLeast(occupied, total, HIGH_OCCUPANCY)
        THEN <<OccupancyAlert("HIGH", "WARNING")>> ELSE <<>>)

\* the if / elif on occupancy
OccupancyAlerts(occupied, total) ==
    IF OccupancyAtLeast(occupied, total, CRITICAL_OCCUPANCY)
    THEN <<OccupancyAlert("CRITICAL", "CRITICAL")>>
    ELSE IF OccupancyAtLeast(occupied, total, HIGH_OCCUPANCY)
    THEN <<OccupancyAlert("HIGH", "WARNING")>>
    ELSE <<>>

\* alerts.generate_alerts(items, occupancy_stats); the message texts are left out
generate_alerts(items, occupancy_stats) ==
    LowConfidenceAlerts(items)
    \o (IF occupancy_stats # NoStats
        THEN OccupancyAlerts(occupancy_stats[1], occupancy_stats[2])
        ELSE <<>>)

\* one send_message call: the position of the alert in the list, the queue, the body
\* and whether the client raised
SendMessage(i, queue_url, alert, raises) ==
    [index |-> i, QueueUrl |-> queue_url, MessageBody |-> alert, raised |-> raises]

send_alert_uncaught(i, queue_url, alert, raises) ==
    IF Falsy(queue_url) THEN [raised |-> "", calls |-> <<>>, result |-> FALSE]
    ELSE [raised |-> IF raises THEN "ClientError" ELSE "",
          calls |-> <<SendMessage(i, queue_url, alert, raises)>>, result |-> ~raises]

\* alerts.send_alert(queue_url, alert, sqs_client) for the alert at position i: no
\* call without queue; an exception of send_message is caught and gives False
send_alert(i, queue_url, alert, raises) ==
    IF Falsy(queue_url) THEN [raised |-> "", calls |-> <<>>, result |-> FALSE]
    ELSE [raised |-> "", calls |-> <<SendMessage(i, queue_url, alert, raises)>>,
          result |-> ~raises]

\* the queue dispatch_alerts picks: alert.get("type") == "LOW_CONFIDENCE"
AlertQueue(alert, low_conf_queue, alerts_queue) ==
    IF alert.type = "LOW_CONFIDENCE" THEN low_conf_queue ELSE alerts_queue

\* the loop of dispatch_alerts from alert i on; an exception leaving send_alert
\* would end it
RECURSIVE DispatchFrom(_, _, _, _, _, _)
DispatchFrom(alerts, i, failing, low_conf_queue, alerts_queue, calls) ==
    IF i > Len(alerts) THEN [raised |-> "", calls |-> calls]
    ELSE
    LET sent == send_alert(i, AlertQueue(alerts[i], low_conf_queue, alerts_queue),
                           alerts[i], i \in failing)
    IN  IF sent.raised # "" THEN [raised |-> sent.raised, calls |-> calls \o sent.calls]
        ELSE DispatchFrom(alerts, i + 1, failing, low_conf_queue, alerts_queue,
                          calls \o sent.calls)

\* alerts.dispatch_alerts(alerts, sqs_client, low_conf_queue, alerts_queue), the
\* client raising on the sends of the alerts at the positions `failing`
dispatch_alerts(alerts, failing, low_conf_queue, alerts_queue) ==
    DispatchFrom(alerts, 1, failing, low_conf_queue, alerts_queue, <<>>)

\* ------------------------------------------------------------ lambda_function.py

\* datetime.utcnow().isoformat()
UtcNowIso == PyStr(<<"utcnow">>)

Raise(exception) == [ok |-> FALSE, reason |-> [kind |-> exception, s |-> <<>>, n |-> 0]]
Raised(result) == result.reason.kind \in {"AttributeError", "InvalidOperation", "JSONDecodeError"}

\* lambda_function.validate_data(space_id, data): a non-str status raises at .lower()
lf_validate_data(space_id, data) ==
    IF ~IsIntOrFloat(Get(data, "confidence", None)) THEN Reject("Invalid confidence type", <<>>, 0)
    ELSE
    LET confidence == ToFloat(data.confidence)
    IN  IF ~(0 <= confidence /\ confidence <= 100)
        THEN Reject("Confidence out of range", <<>>, confidence)
        ELSE IF Get(data, "status", PyStr(<<>>)).t # "str" THEN Raise("AttributeError")
        ELSE
        LET status == lower(Get(data, "status", PyStr(<<>>)).s)
            timestamp == Get(data, "timestamp", UtcNowIso)
        IN  IF status \notin {<<"o","c","c","u","p","i","e","d">>, <<"v","a","c","a","n","t">>}
            THEN Reject("Invalid status", status, 0)
            ELSE IF timestamp.t # "str" \/ ~FromIsoFormatOk(ReplaceZ(timestamp.s))
            THEN Reject("Invalid timestamp", <<>>, 0)
            ELSE Accept

\* the item lambda_handler builds for a valid space
NewItem(space_id, space_data, payload, device_id) ==
    [space_id |-> space_id,
     status |-> space_data.status,
     confidence |-> ToFloat(space_data.confidence),     \* Decimal(str(confidence))
     timestamp |-> Get(payload, "timestamp", UtcNowIso),
     device_id |-> device_id]

\* PASO 1, the loop over payload['spaces']: [raised, items, rejected] after the entries
\* from position k on, an exception ending the loop
RECURSIVE QALoop(_, _, _, _, _)
QALoop(spaces, k, payload, items, rejected) ==
    IF k > Len(spaces) THEN [raised |-> "", items |-> items, rejected |-> rejected]
    ELSE
    LET r == lf_validate_data(spaces[k].space_id, spaces[k].data)
    IN  IF Raised(r) THEN [raised |-> r.reason.kind, items |-> items, rejected |-> rejected]
        ELSE IF ~r.ok THEN QALoop(spaces, k + 1, payload, items, rejected + 1)
        ELSE IF spaces[k].data.confidence.t = "bool"    \* Decimal('True') raises
        THEN [raised |-> "InvalidOperation", items |-> items, rejected |-> rejected]
        ELSE QALoop(spaces, k + 1, payload,
                    Append(items, NewItem(spaces[k].space_id, spaces[k].data, payload,
                                          Get(payload, "device_id", PyStr(<<"unknown">>)))),
                    rejected)

\* event.get('body'), json.loads and payload.get: the exception raised, or ""
PayloadError(event) ==
    CASE event.shape = "list" -> "AttributeError"          \* a list has no .get
      [] event.shape = "body_list" -> "AttributeError"     \* the body parses to a list
      [] event.shape = "body_garbage" -> "JSONDecodeError"
      [] OTHER -> ""

\* payload.get('spaces', {}).items(), as the sequence of its entries
PayloadSpaces(event) ==
    IF event.shape \in {"spaces", "body_spaces"} THEN event.batch ELSE <<>>

\* save_current(items): one put_item per item, an exception logged and skipped
save_current(table, items, failed) ==
    [s \in DOMAIN table |->
        IF \E i \in DOMAIN items : items[i].space_id = s /\ s \notin failed
        THEN items[CHOOSE i \in DOMAIN items :
                    /\ items[i].space_id = s
                    /\ \A j \in DOMAIN items : items[j].space_id = s => j <= i]
        ELSE table[s]]

\* the history item of an item; the history table is keyed by (space_id, timestamp)
HistoryItem(item) ==
    [space_id |-> item.space_id, timestamp |-> item.timestamp, status |-> item.status,
     confidence |-> item.confidence, device_id |-> item.device_id]

SameKey(a, b) == a.space_id = b.space_id /\ a.timestamp = b.timestamp

\* save_history(items): one put_item per item, an exception logged and skipped
RECURSIVE save_history(_, _, _)
save_history(table, items, failed) ==
    IF items = <<>> THEN table
    ELSE IF Head(items).space_id \in failed THEN save_history(table, Tail(items), failed)
    ELSE save_history({h \in table : ~SameKey(h, HistoryItem(Head(items)))}
                        \cup {HistoryItem(Head(items))},
                      Tail(items), failed)

\* i['status'] == 'occupied'
lf_IsOccupied(item) == item.status = PyStr(<<"o","c","c","u","p","i","e","d">>)

\* lambda_function.generate_alerts(items): the occupancy is that of the batch
lf_generate_alerts(items) ==
    LET occupied == Cardinality({i \in DOMAIN items : lf_IsOccupied(items[i])})
        total == Len(items)
        low == SelectSeq(items, LAMBDA item : item.confidence < 80)
    IN  [i \in DOMAIN low |->
            [type |-> "LOW_CONFIDENCE", severity |-> "WARNING", space_id |-> low[i].space_id]]
        \o (IF total > 0 /\ occupied * 100 >= 95 * total
            THEN <<[type |-> "CRITICAL", severity |-> "CRITICAL", space_id |-> 0]>>
            ELSE IF total > 0 /\ occupied * 100 >= 80 * total
            THEN <<[type |-> "HIGH", severity |-> "WARNING", space_id |-> 0]>>
            ELSE <<>>)

\* `if not items:`, the guard of the 400 response, with a mutant that never takes it
NoItems_never(items) == FALSE
NoItems(items) == items = <<>>

\* PASO 5: one send_to_sqs per alert, in order; its result is not read
SendAll(alerts) ==
    [i \in DOMAIN alerts |->
        [queue |-> IF alerts[i].type = "LOW_CONFIDENCE"
                   THEN "SQS_LOW_CONFIDENCE_URL" ELSE "SQS_ALERTS_URL",
         alert |-> alerts[i]]]

Response(code, keys, items, alerts, rejected, error) ==
    [statusCode |-> code, keys |-> keys, items |-> items, alerts |-> alerts,
     rejected |-> rejected, error |-> error]

\* persistence.current_occupancy(table): (occupied, total) over the scanned items
current_occupancy(table) ==
    <<Cardinality({s \in DOMAIN table : table[s].space_id # 0
                                        /\ table[s].status = PyStr(<<"o","c","c","u","p","i","e","d">>)}),
      Cardinality({s \in DOMAIN table : table[s].space_id # 0})>>

\* ------------------------------------------------------------ persistence.py

\* table.scan(**scan_kwargs): the pages storage may answer with.  The table is the
\* sequence of its items' statuses in scan order; a key is the index of the last
\* item evaluated, 0 when there is none (no ExclusiveStartKey, no LastEvaluatedKey).
\* A page holds the next n items; it carries LastEvaluatedKey while items remain,
\* and may carry it on the page that reaches the end.
scan(table, exclusive_start_key, max_page) ==
    {[Items |-> [i \in 1..n |-> exclusive_start_key + i], LastEvaluatedKey |-> key] :
        <<n, key>> \in {p \in (0..max_page) \X (0..Len(table)) :
                          /\ exclusive_start_key + p[1] <= Len(table)
                          /\ p[2] \in {0, exclusive_start_key + p[1]}
                          /\ (exclusive_start_key + p[1] < Len(table)) => p[2] # 0}}

\* scan_kwargs["ExclusiveStartKey"], set only when exclusive_start_key is truthy
ExclusiveStartKey(exclusive_start_key) == exclusive_start_key

\* for item in response.get("Items", []): total += 1; occupied += 1 when its status == "occupied"
CountItems(table, items, occupied, total) ==
    [occupied |-> occupied + Cardinality({k \in DOMAIN items : table[items[k]] = "occupied"}),
     total |-> total + Len(items)]

\* exclusive_start_key = response.get("LastEvaluatedKey"), with a mutant that drops it
LastEvaluatedKey_dropped(response) == 0
LastEvaluatedKey(response) == response.LastEvaluatedKey

\* table.put_item(Item=item) on the current-state table: the entry of the item's
\* key becomes the item, whatever it held; with a mutant that keeps a newer entry
put_item_ifNewer(entry, item) ==
    IF entry.space_id # 0 /\ entry.timestamp > item.timestamp THEN entry ELSE item
put_item(entry, item) == item

\* ------------------------------------------------------------ parser.py

\* A dict of a payload is a record of its keys, Absent for a key it lacks.  A value
\* that holds other values is [t, list]: its Python type and its elements (for a
\* dict, its entries [key, data] in insertion order).
Container(type, elements) == [t |-> type, list |-> elements]
EmptyDict == Container("dict", <<>>)

\* `not value` for a container or a scalar
FalsyValue(v) ==
    IF v.t \in {"dict", "list"} THEN v.list = <<>> ELSE Falsy(v)

\* datetime.now(timezone.utc).isoformat()
NowIso == PyStr(<<"utcnow", "+00:00">>)

\* what parse_events gives: the exception that left it, or the list it returned
Returns(events) == [raised |-> "", events |-> events]
Raises(exception) == [raised |-> exception, events |-> <<>>]

\* parser._ensure_timestamp(value)
_ensure_timestamp(value) == IF Falsy(value) THEN NowIso ELSE value

\* event = {"space_id": space_id, **data}: a key of data replaces the one before it
SpreadEvent(space_id, data) ==
    [data EXCEPT !.space_id = IF data.space_id = Absent THEN space_id ELSE data.space_id]

\* if value and field not in event: event[field] = value
Inherit_overwrite(event, field, value) ==
    IF ~Falsy(value) THEN [event EXCEPT ![field] = value] ELSE event

Inherit(event, field, value) ==
    IF ~Falsy(value) /\ event[field] = Absent THEN [event EXCEPT ![field] = value] ELSE event

\* the body of the loop of _legacy_spaces_to_events for one entry of spaces
LegacyEvent(space_id, data, payload) ==
    LET timestamp == _ensure_timestamp(Get(payload, "timestamp", None))
        spread == SpreadEvent(space_id, data)
        stamped == IF spread.timestamp = Absent
                   THEN [spread EXCEPT !.timestamp = timestamp] ELSE spread
    IN  Inherit(Inherit(Inherit(stamped, "device_id", Get(payload, "device_id", None)),
                        "facility_id", Get(payload, "facility_id", None)),
                "zone_id", Get(payload, "zone_id", None))

\* parser._legacy_spaces_to_events(payload): spaces.items() raises on a value that is
\* not a dict, **data on a record that is not one
_legacy_spaces_to_events(payload) ==
    LET spaces == IF FalsyValue(Get(payload, "spaces", EmptyDict))
                  THEN EmptyDict ELSE payload.spaces
    IN  IF spaces.t # "dict" THEN Raises("AttributeError")
        ELSE IF \E i \in DOMAIN spaces.list : spaces.list[i].data.t # "dict"
        THEN Raises("TypeError")
        ELSE Returns([i \in DOMAIN spaces.list |->
                         LegacyEvent(spaces.list[i].key, spaces.list[i].data.d, payload)])

\* json.loads(text): the text of a payload holds the value it decodes to, or is not JSON
json_loads(raw_event) == [raw_event EXCEPT !.t = raw_event.loads]

parse_events_spacesFirst(raw_event) ==
    IF raw_event.t = "NoneType" THEN Returns(<<>>)
    ELSE IF raw_event.t = "str" /\ raw_event.loads = "JSONDecodeError" THEN Returns(<<>>)
    ELSE
    LET decoded == IF raw_event.t = "str" THEN json_loads(raw_event) ELSE raw_event
    IN  IF decoded.t = "list" THEN Returns(decoded.list)
        ELSE IF decoded.t = "dict"
        THEN IF decoded.d.spaces # Absent THEN _legacy_spaces_to_events(decoded.d)
             ELSE IF decoded.d.events # Absent /\ decoded.d.events.t = "list"
             THEN Returns(decoded.d.events.list)
             ELSE IF decoded.d.space_id # Absent
             THEN Returns(<<IF decoded.d.timestamp = Absent
                            THEN [decoded.d EXCEPT !.timestamp = _ensure_timestamp(None)]
                            ELSE decoded.d>>)
             ELSE Returns(<<>>)
        ELSE Returns(<<>>)

\* parser.parse_events(raw_event)
parse_events(raw_event) ==
    IF raw_event.t = "NoneType" THEN Returns(<<>>)
    ELSE IF raw_event.t = "str" /\ raw_event.loads = "JSONDecodeError" THEN Returns(<<>>)
    ELSE
    LET decoded == IF raw_event.t = "str" THEN json_loads(raw_event) ELSE raw_event
    IN  IF decoded.t = "list" THEN Returns(decoded.list)
        ELSE IF decoded.t = "dict"
        THEN IF decoded.d.events # Absent /\ decoded.d.events.t = "list"
             THEN Returns(decoded.d.events.list)
             ELSE IF decoded.d.spaces # Absent THEN _legacy_spaces_to_events(decoded.d)
             ELSE IF decoded.d.space_id # Absent
             THEN Returns(<<IF decoded.d.timestamp = Absent
                            THEN [decoded.d EXCEPT !.timestamp = _ensure_timestamp(None)]
                            ELSE decoded.d>>)
             ELSE Returns(<<>>)
        ELSE Returns(<<>>)

\* ------------------------------------------------------------ yolo_processor.py

\* x < (x2 - x1) * (y - y1) / (y2 - y1) + x1 for integer coordinates with y1 # y2,
\* the division cleared by multiplying with y2 - y1 (the test is only evaluated
\* where (y1 > y) != (y2 > y), so `or 1e-9` never replaces a zero divisor)
LeftOfCrossing(x, y, p1, p2) ==
    IF p2[2] - p1[2] > 0
    THEN (x - p1[1]) * (p2[2] - p1[2]) < (p2[1] - p1[1]) * (y - p1[2])
    ELSE (x - p1[1]) * (p2[2] - p1[2]) > (p2[1] - p1[1]) * (y - p1[2])

\* intersects, for the edge from polygon[i] to polygon[(i + 1) % n]
Intersects(point, p1, p2) ==
    /\ (p1[2] > point[2]) # (p2[2] > point[2])
    /\ LeftOfCrossing(point[1], point[2], p1, p2)

\* the loop of point_in_polygon from edge i on, `inside` being its value so far
RECURSIVE CastRay(_, _, _, _)
CastRay(point, polygon, i, inside) ==
    IF i > Len(polygon) THEN inside
    ELSE CastRay(point, polygon, i + 1,
                 IF Intersects(point, polygon[i], polygon[(i % Len(polygon)) + 1])
                 THEN ~inside ELSE inside)

point_in_polygon_anyCrossing(point, polygon) ==
    IF Len(polygon) < 3 THEN FALSE
    ELSE \E i \in DOMAIN polygon :
             Intersects(point, polygon[i], polygon[(i % Len(polygon)) + 1])

\* yolo_processor.point_in_polygon(point, polygon)
point_in_polygon(point, polygon) ==
    IF Len(polygon) < 3 THEN FALSE ELSE CastRay(point, polygon, 1, FALSE)

\* a dict with string keys held as the sequence of its items [key, value] in
\* insertion order: d[key] = value
DictPut(d, key, value) ==
    IF \E i \in DOMAIN d : d[i].key = key
    THEN [i \in DOMAIN d |-> IF d[i].key = key THEN [key |-> key, value |-> value] ELSE d[i]]
    ELSE Append(d, [key |-> key, value |-> value])

HasKey(d, key) == \E i \in DOMAIN d : d[i].key = key
DictGet(d, key) == d[CHOOSE i \in DOMAIN d : d[i].key = key].value

\* the check of one entry of spaces_config: the exception it raises, or ""
EntryError(entry) ==
    LET space_id == IF entry.t = "dict" THEN Get(entry, "space_id", None) ELSE None
        polygon == IF entry.t = "dict" /\ entry.polygon.t # "absent"
                   THEN entry.polygon ELSE Container("NoneType", <<>>)
    IN  IF Falsy(space_id) \/ space_id.t # "str" THEN "ValueError"
        ELSE IF polygon.t # "list" \/ Len(polygon.list) < 3 THEN "ValueError"
        ELSE IF \E i \in DOMAIN polygon.list :
                    polygon.list[i].t \notin {"list", "tuple"} \/ Len(polygon.list[i].xy) # 2
        THEN "ValueError"
        ELSE IF \E i \in DOMAIN polygon.list : ~polygon.list[i].numeric
        THEN "TypeError"                       \* float(x) of a value that is no number
        ELSE ""

\* normalized: the points of a checked polygon as pairs (float(x), float(y))
Normalized(polygon) == [i \in DOMAIN polygon.list |-> polygon.list[i].xy]

\* the loop of set_roi_spaces from entry i on: the exception that ends it, and `processed`
RECURSIVE ProcessEntries(_, _, _)
ProcessEntries(spaces_config, i, processed) ==
    IF i > Len(spaces_config) THEN [raised |-> "", processed |-> processed]
    ELSE IF EntryError(spaces_config[i]) # ""
    THEN [raised |-> EntryError(spaces_config[i]), processed |-> processed]
    ELSE ProcessEntries(spaces_config, i + 1,
                        DictPut(processed, spaces_config[i].space_id,
                                Normalized(spaces_config[i].polygon)))

set_roi_spaces_partial(roi, spaces_config) ==
    IF spaces_config = <<>> THEN [raised |-> "ValueError", roi |-> roi]
    ELSE LET r == ProcessEntries(spaces_config, 1, <<>>)
         IN  [raised |-> r.raised, roi |-> r.processed]

\* YOLOProcessor.set_roi_spaces(spaces_config), on the stored _roi_spaces
set_roi_spaces(roi, spaces_config) ==
    IF spaces_config = <<>> THEN [raised |-> "ValueError", roi |-> roi]
    ELSE LET r == ProcessEntries(spaces_config, 1, <<>>)
         IN  IF r.raised # "" THEN [raised |-> r.raised, roi |-> roi]
             ELSE [raised |-> "", roi |-> r.processed]

LastRoiContaining(roi, center) ==
    IF \E i \in DOMAIN roi : point_in_polygon(center, roi[i].value)
    THEN CHOOSE i \in DOMAIN roi :
             /\ point_in_polygon(center, roi[i].value)
             /\ \A j \in (i + 1)..Len(roi) : ~point_in_polygon(center, roi[j].value)
    ELSE 0

\* the first ROI in stored order whose polygon contains the center, 0 if none does
FirstRoiContaining(roi, center) ==
    IF \E i \in DOMAIN roi : point_in_polygon(center, roi[i].value)
    THEN CHOOSE i \in DOMAIN roi :
             /\ point_in_polygon(center, roi[i].value)
             /\ \A j \in 1..(i - 1) : ~point_in_polygon(center, roi[j].value)
    ELSE 0

\* float(detection.get("confidence") or 0.0), in hundredths
DetectionConfidence(detection) ==
    IF Falsy(detection.confidence) THEN 0 ELSE ToFloat(detection.confidence)

\* the loop of _map_detections_to_spaces from detection k on, `occupancy` so far
RECURSIVE MapFrom(_, _, _, _)
MapFrom(roi, detections, k, occupancy) ==
    IF k > Len(detections) THEN occupancy
    ELSE IF ~detections[k].has_center THEN MapFrom(roi, detections, k + 1, occupancy)
    ELSE
    LET i == FirstRoiContaining(roi, detections[k].center)
        confidence == DetectionConfidence(detections[k])
    IN  IF i = 0 THEN MapFrom(roi, detections, k + 1, occupancy)
        ELSE IF ~HasKey(occupancy, roi[i].key) \/ confidence > DictGet(occupancy, roi[i].key)
        THEN MapFrom(roi, detections, k + 1, DictPut(occupancy, roi[i].key, confidence))
        ELSE MapFrom(roi, detections, k + 1, occupancy)

\* YOLOProcessor._map_detections_to_spaces(detections)
_map_detections_to_spaces(roi, detections) == MapFrom(roi, detections, 1, <<>>)

\* detect_parking_spaces, the report of the spaces when ROIs are stored: a space is
\* occupied when the map has it; round(confidence, 3) keeps a value in hundredths
SpacesReport(roi, occupancy_map) ==
    [i \in DOMAIN roi |->
        [key |-> roi[i].key,
         value |-> [status |-> IF HasKey(occupancy_map, roi[i].key) THEN "occupied" ELSE "vacant",
                    confidence |-> IF HasKey(occupancy_map, roi[i].key)
                                   THEN DictGet(occupancy_map, roi[i].key) ELSE 0]]]

\* cap.read() on a capture of `frames` frames at position pos: (ret, frame) and the
\* position after it; the frame is the index of the frame read, -1 for none
CapRead(frames, pos) ==
    IF pos < frames THEN [ret |-> TRUE, frame |-> pos, pos |-> pos + 1]
    ELSE [ret |-> FALSE, frame |-> -1, pos |-> pos]

\* the loop of _read_video_frame with `left` iterations to go: the exception raised,
\* the frame of the last read, the position, and the rewinds and reads made
RECURSIVE ReadLoop_noRetry(_, _, _, _, _, _)
ReadLoop_noRetry(frames, pos, left, frame, rewinds, reads) ==
    IF left = 0
    THEN [raised |-> "", frame |-> frame, pos |-> pos, rewinds |-> rewinds, reads |-> reads]
    ELSE
    LET first == CapRead(frames, pos)
    IN  IF first.ret
        THEN ReadLoop_noRetry(frames, first.pos, left - 1, first.frame, rewinds, reads + 1)
        ELSE [raised |-> "RuntimeError", frame |-> -1, pos |-> first.pos,
              rewinds |-> rewinds, reads |-> reads + 1]

RECURSIVE ReadLoop(_, _, _, _, _, _)
ReadLoop(frames, pos, left, frame, rewinds, reads) ==
    IF left = 0
    THEN [raised |-> "", frame |-> frame, pos |-> pos, rewinds |-> rewinds, reads |-> reads]
    ELSE
    LET first == CapRead(frames, pos)
        retry == CapRead(frames, 0)      \* after cap.set(cv2.CAP_PROP_POS_FRAMES, 0)
    IN  IF first.ret
        THEN ReadLoop(frames, first.pos, left - 1, first.frame, rewinds, reads + 1)
        ELSE IF retry.ret
        THEN ReadLoop(frames, retry.pos, left - 1, retry.frame, rewinds + 1, reads + 2)
        ELSE [raised |-> "RuntimeError", frame |-> -1, pos |-> retry.pos,
              rewinds |-> rewinds + 1, reads |-> reads + 2]

_read_video_frame_noRetry(frames, pos, frame_skip) ==
    ReadLoop_noRetry(frames, pos, frame_skip + 1, -1, 0, 0)

\* YOLOProcessor._read_video_frame() with a capture open
_read_video_frame(frames, pos, frame_skip) ==
    ReadLoop(frames, pos, frame_skip + 1, -1, 0, 0)

\* ------------------------------------------------------------ publisher_utils.py

\* self._last_states.get(space_id) of a space never seen
NoState == [status |-> "", confidence |-> -1]

StatusChanged_orConfidence(prev, data) ==
    prev = NoState \/ prev.status # data.status \/ prev.confidence # data.confidence

\* not prev or prev.get("status") != status
StatusChanged(prev, data) == prev = NoState \/ prev.status # data.status

\* the loop of detect_changes from item i of current_spaces on
RECURSIVE ChangesFrom(_, _, _, _)
ChangesFrom(last_states, current_spaces, i, changes) ==
    IF i > Len(current_spaces) THEN [changes |-> changes, last_states |-> last_states]
    ELSE
    LET space_id == current_spaces[i].key
        data == current_spaces[i].value
    IN  ChangesFrom([last_states EXCEPT ![space_id] =
                        [status |-> data.status, confidence |-> data.confidence]],
                    current_spaces, i + 1,
                    IF StatusChanged(last_states[space_id], data)
                    THEN Append(changes, [space_id |-> space_id, status |-> data.status,
                                          confidence |-> data.confidence])
                    ELSE changes)

\* SpaceStateTracker.detect_changes(current_spaces), on the cache _last_states
detect_changes(last_states, current_spaces) == ChangesFrom(last_states, current_spaces, 1, <<>>)

\* ------------------------------------------------------------ edge_publisher.py

\* build_change_payload(changes, metadata): each change with the timestamp of the
\* call and the metadata of the device
build_change_payload(changes, metadata) ==
    [i \in DOMAIN changes |->
        [space_id |-> changes[i].space_id, status |-> changes[i].status,
         confidence |-> changes[i].confidence, timestamp |-> "now",
         device_id |-> metadata.device_id, data_source |-> metadata.data_source]]

\* publish_change_events(mqtt_connection, topic, events): one publish of the list
\* as one JSON message
publish_change_events(topic, events) == [topic |-> topic, payload |-> events, qos |-> 1]

\* while args.iterations < 0 or iteration < args.iterations
LoopContinues(iterations, iteration) == iterations < 0 \/ iteration < iterations

\* the skipped cycle's `iteration += 1; continue`, with a mutant that only continues
SkippedCycle_notCounted(iteration) == iteration
SkippedCycle(iteration) == iteration + 1

\* ------------------------------------------------------------ inputs of the validator

SpaceIdValues ==
    {None, PyStr(<<>>), PyStr(<<"A", "-", "0", "1">>), PyInt(7)}

ConfidenceValues ==
    {Absent, None, PyStr(<<"0", ".", "9">>), PyBool(TRUE), PyInt(0), PyInt(1), PyInt(2),
     PyFloat(-10), PyFloat(0), PyFloat(50), PyFloat(79), PyFloat(80), PyFloat(100),
     PyFloat(101), PyFloat(150)}

StatusValues ==
    {Absent, None, PyInt(5),
     PyStr(<<>>),
     PyStr(<<"o","c","c","u","p","i","e","d">>),
     PyStr(<<"O","C","C","U","P","I","E","D">>),
     PyStr(<<"O","c","c","u","p","i","e","d">>),
     PyStr(<<"o","C","c","U","p","I","e","D">>),
     PyStr(<<"v","a","c","a","n","t">>),
     PyStr(<<"V","a","c","a","n","t">>),
     PyStr(<<"V","A","C","A","N","T">>),
     PyStr(<<"f","u","l","l">>),
     PyStr(<<"o","c","c","u","p","i","e">>),
     PyStr(<<"v","a","c","a","n","t"," ">>)}

TimestampValues ==
    {Absent, None, PyInt(0), PyInt(1730669760),
     PyStr(<<>>),
     PyStr(<<"2025-11-03T21:36:00">>),
     PyStr(<<"2025-11-03T21:36:00", "Z">>),
     PyStr(<<"2025-11-03T21:36:00", "-06:00">>),
     PyStr(<<"2025-11-03">>),
     PyStr(<<"2025-11-03T21:36:00", "Z", "Z">>),
     PyStr(<<"Z">>),
     PyStr(<<"yesterday">>)}

QAInputs ==
    [space_id : SpaceIdValues,
     data : [confidence : ConfidenceValues, status : StatusValues, timestamp : TimestampValues]]

\* ------------------------------------------------------------ inputs of generate_alerts

MaxItems == 2
MaxTotal == 20
NumSpaces == 3

Spaces == 1..NumSpaces
ItemSpaceIds == {1, 2}
ItemConfidences == {72, 79, 80, 95}
AlertItems == [space_id : ItemSpaceIds, confidence : ItemConfidences]
ItemSeqs == UNION {[1..k -> AlertItems] : k \in 0..MaxItems}
StatsValues == {NoStats} \cup {<<o, t>> : o \in 0..MaxTotal, t \in 0..MaxTotal}

\* ------------------------------------------------------------ inputs of lambda_handler

MaxPutFailures == 1

Occupied == PyStr(<<"o","c","c","u","p","i","e","d">>)
Vacant == PyStr(<<"v","a","c","a","n","t">>)

\* the per-space records of a payload
IngestData ==
    {[confidence |-> PyFloat(95), status |-> Occupied, timestamp |-> Absent],
     [confidence |-> PyFloat(72), status |-> Occupied, timestamp |-> Absent],
     [confidence |-> PyFloat(95), status |-> PyStr(<<"O","C","C","U","P","I","E","D">>), timestamp |-> Absent],
     [confidence |-> PyFloat(95), status |-> Vacant, timestamp |-> Absent],
     [confidence |-> PyFloat(150), status |-> PyStr(<<"i","n","v","a","l","i","d">>), timestamp |-> Absent],
     [confidence |-> PyFloat(95), status |-> None, timestamp |-> Absent]}

NoEvent == [confidence |-> Absent, status |-> Absent, timestamp |-> Absent]

\* the entries of a mapping space_id -> record, in key order
RECURSIVE EntriesFrom(_, _)
EntriesFrom(f, k) ==
    IF k > NumSpaces THEN <<>>
    ELSE (IF f[k] = NoEvent THEN <<>> ELSE <<[space_id |-> k, data |-> f[k]]>>)
         \o EntriesFrom(f, k + 1)

Batches == {EntriesFrom(f, 1) : f \in [Spaces -> IngestData \cup {NoEvent}]}

Payloads == [timestamp : {PyStr(<<"2025-11-03T21:36:00", "Z">>)}, device_id : {PyStr(<<"dev-1">>)}]

\* the shapes of an invocation event: a list of per-space events, a snapshot
\* {"spaces": {...}}, {"events": [...]}, and {"body": "<json>"} around a snapshot, a
\* list or text that is not JSON
BatchShapes == {"list", "spaces", "events", "body_spaces", "body_list"}
IngestEvents ==
    [shape : BatchShapes, batch : Batches, payload : Payloads]
    \cup [shape : {"body_garbage"}, batch : {<<>>}, payload : Payloads]

NoItem ==
    [space_id |-> 0, status |-> Absent, confidence |-> 0, timestamp |-> Absent, device_id |-> Absent]

StoredVacant(s) ==
    [space_id |-> s, status |-> Vacant, confidence |-> 95,
     timestamp |-> PyStr(<<"2025-11-03T21:36:00", "Z">>), device_id |-> PyStr(<<"dev-1">>)]

\* the table after earlier invocations stored spaces 1..k as vacant; empty for k = 0
InitialTables ==
    {[s \in Spaces |-> IF s <= k THEN StoredVacant(s) ELSE NoItem] : k \in 0..NumSpaces}

NoResponse == [statusCode |-> 0, keys |-> {}, items |-> 0, alerts |-> 0, rejected |-> 0, error |-> ""]

\* ------------------------------------------------------------ inputs of parse_events

MaxKeys == 2

KeyNames == <<"A-01", "A-02", "A-03", "A-04">>
SpaceKey(k) == PyStr(<<KeyNames[k]>>)

NoDict ==
    [events |-> Absent, spaces |-> Absent, space_id |-> Absent, status |-> Absent,
     timestamp |-> Absent, device_id |-> Absent, facility_id |-> Absent, zone_id |-> Absent]

\* a dict with the given event fields and no events or spaces key
EventDict(space_id, status, timestamp, device_id, facility_id, zone_id) ==
    [NoDict EXCEPT !.space_id = space_id, !.status = status, !.timestamp = timestamp,
                   !.device_id = device_id, !.facility_id = facility_id, !.zone_id = zone_id]

DictValue(d) == [t |-> "dict", d |-> d]
NotADict(type) == [t |-> type, d |-> NoDict]

\* the values under the keys of `spaces`: records with none, some or all of the
\* inherited fields (one with a space_id of its own, one with fields that are
\* present and falsy), an empty record, and values that are not records
InnerValues ==
    {DictValue(EventDict(Absent, Occupied, Absent, Absent, Absent, Absent)),
     DictValue(EventDict(Absent, Vacant, PyStr(<<"2025-11-03">>), PyStr(<<"cam-7">>), Absent, Absent)),
     DictValue(EventDict(PyStr(<<"Z-99">>), Occupied, PyStr(<<"2025-11-03">>), PyStr(<<"cam-7">>),
                         PyStr(<<"fac-in">>), PyStr(<<"zone-in">>))),
     DictValue(EventDict(Absent, Vacant, None, PyStr(<<>>), Absent, None)),
     DictValue(NoDict),
     NotADict("NoneType"),
     NotADict("str")}

\* the entries of a dict with 0..MaxKeys distinct keys, in every insertion order
SpacesEntries ==
    {e \in UNION {[1..n -> [key : {SpaceKey(k) : k \in 1..MaxKeys}, data : InnerValues]] :
                  n \in 0..MaxKeys} :
        \A i, j \in DOMAIN e : i # j => e[i].key # e[j].key}

SpacesValues ==
    {Absent, None, PyStr(<<>>), PyStr(<<"A-01">>),
     Container("list", <<>>), Container("list", <<SpaceKey(1)>>)}
    \cup {Container("dict", e) : e \in SpacesEntries}

ListedEvents ==
    <<EventDict(SpaceKey(1), Occupied, Absent, Absent, Absent, Absent),
      EventDict(SpaceKey(2), Vacant, PyStr(<<"2025-11-03">>), Absent, Absent, Absent)>>

EventsValues ==
    {Absent, None, Container("list", <<>>), Container("list", ListedEvents)}

\* the top-level metadata of a payload: none, all, timestamp only, and falsy values
TopLevels ==
    {EventDict(Absent, Absent, Absent, Absent, Absent, Absent),
     EventDict(Absent, Absent, PyStr(<<"2025-11-03T21:36:00", "Z">>), PyStr(<<"device-1">>),
               PyStr(<<"fac-1">>), PyStr(<<"zone-1">>)),
     EventDict(Absent, Absent, PyStr(<<"2025-11-03T21:36:00", "Z">>), Absent, Absent, Absent),
     EventDict(Absent, Absent, PyStr(<<>>), PyStr(<<>>), PyStr(<<"fac-1">>), None)}

PayloadDicts ==
    {[top EXCEPT !.events = ev, !.spaces = sp, !.space_id = id,
                 !.status = IF id = Absent THEN Absent ELSE Occupied] :
        top \in TopLevels, ev \in EventsValues, sp \in SpacesValues,
        id \in {Absent, PyStr(<<"B-07">>)}}

\* the arguments of parse_events: None, a number, a list, a dict, and text that is
\* not JSON or is the JSON of null, a number, a string, a list or a dict
RawEvents ==
    [t : {"NoneType", "int"}, loads : {""}, list : {<<>>}, d : {NoDict}]
    \cup [t : {"list"}, loads : {""}, list : {<<>>, ListedEvents}, d : {NoDict}]
    \cup [t : {"dict"}, loads : {""}, list : {<<>>}, d : PayloadDicts]
    \cup [t : {"str"}, loads : {"JSONDecodeError", "NoneType", "int", "str"}, list : {<<>>}, d : {NoDict}]
    \cup [t : {"str"}, loads : {"list"}, list : {<<>>, ListedEvents}, d : {NoDict}]
    \cup [t : {"str"}, loads : {"dict"}, list : {<<>>}, d : PayloadDicts]

NotParsed == [raised |-> "pending", events |-> <<>>]

\* ------------------------------------------------------------ inputs of point_in_polygon

GridMax == 4

\* the corners of a rectangle lie on 0..GridMax, points also one step outside it
Corners == 0..GridMax
GridPoints == {<<x, y>> : x \in -1..(GridMax + 1), y \in -1..(GridMax + 1)}

Rect(x0, y0, x1, y1) == <<<<x0, y0>>, <<x1, y0>>, <<x1, y1>>, <<x0, y1>>>>

\* the list started at vertex k, and the list in the opposite winding direction
Rotate(polygon, k) == [i \in DOMAIN polygon |-> polygon[((i + k - 2) % Len(polygon)) + 1]]
Reverse(polygon) == [i \in DOMAIN polygon |-> polygon[Len(polygon) + 1 - i]]

Rectangles ==
    {Rect(x0, y0, x1, y1) : x0 \in Corners, y0 \in Corners,
                            x1 \in Corners, y1 \in Corners} 

\* every vertex list of a rectangle of positive area
RectPolygons ==
    UNION {{Rotate(r, k) : k \in 1..4} \cup {Rotate(Reverse(r), k) : k \in 1..4} :
           r \in {q \in Rectangles : q[1][1] < q[3][1] /\ q[1][2] < q[3][2]}}

\* polygons of 0, 1 and 2 vertices
Degenerate == {<<>>, <<<<0, 0>>>>, <<<<0, 0>>, <<GridMax, GridMax>>>>, <<<<0, 2>>, <<GridMax, 2>>>>}

Polygons == RectPolygons \cup Degenerate

\* ------------------------------------------------------------ inputs of YOLOProcessor

MaxEntries == 2
MaxDetections == 2

ConfigPoint(x, y) == [t |-> "list", xy |-> <<x, y>>, numeric |-> TRUE]
ConfigPolygon(polygon) ==
    Container("list", [i \in DOMAIN polygon |-> ConfigPoint(polygon[i][1], polygon[i][2])])

\* two ROI rectangles that overlap on 2..4 x 2..4
RoiPolygons == {Rect(0, 0, 4, 4), Rect(2, 2, 6, 6)}

ValidEntries ==
    {[t |-> "dict", space_id |-> SpaceKey(k), polygon |-> ConfigPolygon(p)] :
        k \in 1..2, p \in RoiPolygons}

\* an entry that is no dict, and entries with a space_id that is no string, without
\* polygon, with a polygon of 2 points, with a point of 3 coordinates and with a
\* coordinate that is no number
MalformedEntries ==
    {[t |-> "str", space_id |-> Absent, polygon |-> Absent],
     [t |-> "dict", space_id |-> PyInt(7), polygon |-> ConfigPolygon(Rect(0, 0, 4, 4))],
     [t |-> "dict", space_id |-> SpaceKey(1), polygon |-> Absent],
     [t |-> "dict", space_id |-> SpaceKey(1),
      polygon |-> Container("list", <<ConfigPoint(0, 0), ConfigPoint(4, 4)>>)],
     [t |-> "dict", space_id |-> SpaceKey(1),
      polygon |-> Container("list", <<ConfigPoint(0, 0), ConfigPoint(4, 0),
                                      [t |-> "list", xy |-> <<4, 4, 0>>, numeric |-> TRUE]>>)],
     [t |-> "dict", space_id |-> SpaceKey(1),
      polygon |-> Container("list", <<ConfigPoint(0, 0), ConfigPoint(4, 0),
                                      [t |-> "list", xy |-> <<4, 4>>, numeric |-> FALSE]>>)]}

RoiConfigs == UNION {[1..n -> ValidEntries \cup MalformedEntries] : n \in 0..MaxEntries}

\* centers in the first rectangle only, in both, in the second only and in neither
Centers == {<<1, 1>>, <<3, 3>>, <<5, 5>>, <<9, 9>>}

Detections ==
    [has_center : {TRUE}, center : Centers, confidence : {None, PyFloat(55), PyFloat(90)}]
    \cup [has_center : {FALSE}, center : {<<0, 0>>}, confidence : {PyFloat(90)}]

DetectionLists == UNION {[1..n -> Detections] : n \in 0..MaxDetections}

\* _roi_spaces after __init__ (empty) and after the set_roi_spaces calls that stored
\* a configuration
StoredRoiSets ==
    {<<>>} \cup {set_roi_spaces(<<>>, c).roi : c \in {k \in RoiConfigs : set_roi_spaces(<<>>, k).raised = ""}}

\* ------------------------------------------------------------ inputs of _read_video_frame

MaxFrames == 6
MaxFrameSkip == 5

NoRead == [before |-> 0, raised |-> "", frame |-> -1, rewinds |-> 0, reads |-> 0]

\* ------------------------------------------------------------ inputs of detect_changes

NumTracked == 2

TrackedIds == {SpaceKey(k) : k \in 1..NumTracked}

\* what a snapshot says about a space: nothing, or a status with a confidence
SpaceReports ==
    {NoState,
     [status |-> "occupied", confidence |-> 55],
     [status |-> "occupied", confidence |-> 90],
     [status |-> "vacant", confidence |-> 0]}

\* the items of a mapping space_id -> report, in the order of the ROI spaces
RECURSIVE ItemsFrom(_, _)
ItemsFrom(f, k) ==
    IF k > NumTracked THEN <<>>
    ELSE (IF f[SpaceKey(k)] = NoState THEN <<>>
          ELSE <<[key |-> SpaceKey(k), value |-> f[SpaceKey(k)]]>>)
         \o ItemsFrom(f, k + 1)

Snapshots == {ItemsFrom(f, 1) : f \in [TrackedIds -> SpaceReports]}

\* ------------------------------------------------------------ inputs of dispatch_alerts

MaxAlerts == 3

\* the alerts generate_alerts builds, and one without type
DispatchedAlerts ==
    {LowConfidenceAlert([space_id |-> 1]),
     OccupancyAlert("HIGH", "WARNING"),
     OccupancyAlert("CRITICAL", "CRITICAL"),
     OccupancyAlert("", "INFO")}

AlertLists == UNION {[1..n -> DispatchedAlerts] : n \in 0..MaxAlerts}

\* os.getenv of a queue URL: unset, empty or a URL
LowQueues == {None, PyStr(<<>>), PyStr(<<"low-confidence-queue">>)}
AlertsQueues == {None, PyStr(<<"alerts-queue">>)}

\* ------------------------------------------------------------ inputs of current_occupancy

MaxScanItems == 3
MaxPageSize == 2
StoredStatuses == {"occupied", "vacant", "OCCUPIED"}
ScannedTables == UNION {[1..n -> StoredStatuses] : n \in 0..MaxScanItems}
NoPage == [Items |-> <<>>, LastEvaluatedKey |-> 0]

\* ------------------------------------------------------------ inputs of the edge publisher loop

MaxIterations == 2
MaxCycles == 3

\* a snapshot of the publisher reports every space
FullSnapshots == {s \in Snapshots : Len(s) = NumTracked}
Metadata == [device_id |-> "teraspot-edge-device", data_source |-> "mocked"]
NoCycle == [before |-> [s \in TrackedIds |-> NoState], snapshot |-> <<>>, changes |-> <<>>, publishes |-> <<>>]

\* ------------------------------------------------------------ inputs of lambda_handler, timestamps

\* a timestamp is missing, ISO-8601 with or without a time, or not a timestamp
StampValues ==
    {Absent, PyStr(<<"2025-11-03T21:36:00", "Z">>), PyStr(<<"2025-11-03">>), PyStr(<<"yesterday">>)}

TimedData == [confidence : {PyFloat(95)}, status : {Occupied}, timestamp : StampValues]
TimedBatches == {EntriesFrom(f, 1) : f \in [Spaces -> TimedData \cup {NoEvent}]}
TimedEvents ==
    [shape : {"spaces"}, batch : TimedBatches,
     payload : [timestamp : StampValues, device_id : {PyStr(<<"dev-1">>)}]]

\* ------------------------------------------------------------ inputs of concurrent invocations

NumInvocations == 2
MaxEventTime == 3

Invocations == 1..NumInvocations

\* the item invocation i built from its accepted event for the space: the event's
\* time is a number, a later event a greater one
ItemsOf(i) ==
    [space_id : {1}, status : {Occupied, Vacant}, confidence : {95},
     timestamp : 1..MaxEventTime, device_id : {i}]
NoEntry == [space_id |-> 0, status |-> Absent, confidence |-> 0, timestamp |-> 0, device_id |-> 0]

\* ------------------------------------------------------------ specifications

Pending == [ok |-> FALSE, reason |-> [kind |-> "pending", s |-> <<>>, n |-> 0]]

QAIdle ==
    /\ qa_in = [space_id |-> None, data |-> [confidence |-> Absent, status |-> Absent, timestamp |-> Absent]]
    /\ qa_out = Pending

GAIdle ==
    /\ ga_items = <<>>
    /\ ga_stats = <<>>
    /\ ga_out = <<>>
    /\ ga_pc = "idle"

IHIdle ==
    /\ ih_event = [shape |-> "body_garbage", batch |-> <<>>,
                   payload |-> [timestamp |-> Absent, device_id |-> Absent]]
    /\ ih_pc = "idle"
    /\ ih_resp = NoResponse
    /\ cur_table = [s \in Spaces |-> NoItem]
    /\ hist_table = {}
    /\ sqs_log = <<>>
    /\ put_failed = [current |-> {}, history |-> {}]
    /\ cur_before = [s \in Spaces |-> NoItem]

PEIdle ==
    /\ pe_raw = [t |-> "NoneType", loads |-> "", list |-> <<>>, d |-> NoDict]
    /\ pe_out = NotParsed
    /\ pe_pc = "idle"

PIPIdle ==
    /\ pip_point = <<0, 0>>
    /\ pip_polygon = <<>>
    /\ pip_out = FALSE
    /\ pip_pc = "idle"

ROIIdle ==
    /\ roi_spaces = <<>>
    /\ roi_op = "idle"
    /\ roi_arg = <<>>
    /\ roi_raised = ""
    /\ roi_before = <<>>
    /\ roi_occupancy = <<>>
    /\ roi_report = <<>>

VIDIdle ==
    /\ vid_frames = 0
    /\ vid_skip = 0
    /\ vid_pos = 0
    /\ vid_call = [NoRead EXCEPT !.raised = "idle"]

STIdle ==
    /\ st_last = [s \in TrackedIds |-> NoState]
    /\ st_before = [s \in TrackedIds |-> NoState]
    /\ st_snapshot = <<>>
    /\ st_changes = <<>>
    /\ st_again = FALSE
    /\ st_pc = "idle"
    /\ st_emitted = [s \in TrackedIds |-> ""]
    /\ st_recent = [s \in TrackedIds |-> ""]
    /\ st_repeated = FALSE

DAIdle ==
    /\ da_alerts = <<>>
    /\ da_low_queue = None
    /\ da_alerts_queue = None
    /\ da_failing = {}
    /\ da_calls = <<>>
    /\ da_dlq = <<>>
    /\ da_raised = ""
    /\ da_pc = "idle"

SCIdle ==
    /\ sc_table = <<>> /\ sc_key = 0 /\ sc_resp = NoPage
    /\ sc_occupied = 0 /\ sc_total = 0 /\ sc_counted = <<>> /\ sc_pc = "idle"

EPIdle ==
    /\ ep_iterations = 0 /\ ep_iteration = 0 /\ ep_last = [s \in TrackedIds |-> NoState]
    /\ ep_cycle = NoCycle /\ ep_cycles = 0 /\ ep_pc = "idle"

CCIdle ==
    /\ cc_items = <<>> /\ cc_pc = <<>> /\ cc_entry = NoEntry /\ cc_order = <<>>

\* every component but one is idle
QAOnly == GAIdle /\ IHIdle /\ PEIdle /\ PIPIdle /\ ROIIdle /\ VIDIdle /\ STIdle /\ DAIdle /\ SCIdle /\ EPIdle /\ CCIdle
GAOnly == QAIdle /\ IHIdle /\ PEIdle /\ PIPIdle /\ ROIIdle /\ VIDIdle /\ STIdle /\ DAIdle /\ SCIdle /\ EPIdle /\ CCIdle
IHOnly == QAIdle /\ GAIdle /\ PEIdle /\ PIPIdle /\ ROIIdle /\ VIDIdle /\ STIdle /\ DAIdle /\ SCIdle /\ EPIdle /\ CCIdle
PEOnly == QAIdle /\ GAIdle /\ IHIdle /\ PIPIdle /\ ROIIdle /\ VIDIdle /\ STIdle /\ DAIdle /\ SCIdle /\ EPIdle /\ CCIdle
PIPOnly == QAIdle /\ GAIdle /\ IHIdle /\ PEIdle /\ ROIIdle /\ VIDIdle /\ STIdle /\ DAIdle /\ SCIdle /\ EPIdle /\ CCIdle
ROIOnly == QAIdle /\ GAIdle /\ IHIdle /\ PEIdle /\ PIPIdle /\ VIDIdle /\ STIdle /\ DAIdle /\ SCIdle /\ EPIdle /\ CCIdle
VIDOnly == QAIdle /\ GAIdle /\ IHIdle /\ PEIdle /\ PIPIdle /\ ROIIdle /\ STIdle /\ DAIdle /\ SCIdle /\ EPIdle /\ CCIdle
STOnly == QAIdle /\ GAIdle /\ IHIdle /\ PEIdle /\ PIPIdle /\ ROIIdle /\ VIDIdle /\ DAIdle /\ SCIdle /\ EPIdle /\ CCIdle
DAOnly == QAIdle /\ GAIdle /\ IHIdle /\ PEIdle /\ PIPIdle /\ ROIIdle /\ VIDIdle /\ STIdle /\ SCIdle /\ EPIdle /\ CCIdle
SCOnly == QAIdle /\ GAIdle /\ IHIdle /\ PEIdle /\ PIPIdle /\ ROIIdle /\ VIDIdle /\ STIdle /\ DAIdle /\ EPIdle /\ CCIdle
EPOnly == QAIdle /\ GAIdle /\ IHIdle /\ PEIdle /\ PIPIdle /\ ROIIdle /\ VIDIdle /\ STIdle /\ DAIdle /\ SCIdle /\ CCIdle
CCOnly == QAIdle /\ GAIdle /\ IHIdle /\ PEIdle /\ PIPIdle /\ ROIIdle /\ VIDIdle /\ STIdle /\ DAIdle /\ SCIdle /\ EPIdle

QAInit ==
    /\ qa_in \in QAInputs
    /\ qa_out = Pending
    /\ QAOnly

\* one call validate_data(space_id, data)
Validate ==
    /\ qa_out = Pending
    /\ qa_out' = validate_data(qa_in.space_id, qa_in.data)
    /\ UNCHANGED <<qa_in, exceptQA>>

SpecQA == QAInit /\ [][Validate]_vars

GAInit ==
    /\ ga_items \in ItemSeqs
    /\ ga_stats \in {st \in StatsValues : st = NoStats \/ st[1] <= st[2]}
    /\ ga_out = <<>>
    /\ ga_pc = "call"
    /\ GAOnly

\* one call generate_alerts(items, occupancy_stats)
GenerateAlerts ==
    /\ ga_pc = "call"
    /\ ga_out' = generate_alerts(ga_items, ga_stats)
    /\ ga_pc' = "done"
    /\ UNCHANGED <<ga_items, ga_stats, exceptGA>>

SpecGA == GAInit /\ [][GenerateAlerts]_vars

IHInit ==
    /\ ih_event \in IngestEvents
    /\ ih_pc = "ready"
    /\ ih_resp = NoResponse
    /\ cur_table \in InitialTables
    /\ hist_table = {}
    /\ sqs_log = <<>>
    /\ put_failed = [current |-> {}, history |-> {}]
    /\ cur_before = cur_table
    /\ IHOnly

\* the except branch: statusCode 500, body {'error': str(e)}
HandlerError(exception) ==
    /\ ih_resp' = Response(500, {"error"}, 0, 0, 0, exception)
    /\ UNCHANGED <<cur_table, hist_table, sqs_log, put_failed>>

\* one invocation lambda_handler(event, context), its put_item failures chosen by the
\* storage (qa and alerts are bound once, as the handler's local variables are)
LambdaHandler ==
    /\ ih_pc = "ready"
    /\ ih_pc' = "done"
    /\ UNCHANGED <<ih_event, cur_before, exceptIH>>
    /\ IF PayloadError(ih_event) # "" THEN HandlerError(PayloadError(ih_event))
       ELSE
       \E qa \in {QALoop(PayloadSpaces(ih_event), 1, ih_event.payload, <<>>, 0)} :
           IF qa.raised # "" THEN HandlerError(qa.raised)
           ELSE IF NoItems(qa.items)
           THEN /\ ih_resp' = Response(400, {"error", "rejected"}, 0, 0, qa.rejected, "No items")
                /\ UNCHANGED <<cur_table, hist_table, sqs_log, put_failed>>
           ELSE \E alerts \in {lf_generate_alerts(qa.items)} :
                \E ids \in {{qa.items[i].space_id : i \in DOMAIN qa.items}} :
                \E fc \in SUBSET ids, fh \in SUBSET ids :
                /\ Cardinality(fc) + Cardinality(fh) <= MaxPutFailures
                /\ put_failed' = [current |-> fc, history |-> fh]
                /\ cur_table' = save_current(cur_table, qa.items, fc)
                /\ hist_table' = save_history(hist_table, qa.items, fh)
                /\ sqs_log' = SendAll(alerts)
                /\ ih_resp' = Response(200, {"success", "items", "alerts", "rejected"},
                                       Len(qa.items), Len(alerts), qa.rejected, "")

SpecIH == IHInit /\ [][LambdaHandler]_vars

\* invocations that differ in the timestamps of the snapshot and of its records
IHTInit ==
    /\ ih_event \in TimedEvents
    /\ ih_pc = "ready"
    /\ ih_resp = NoResponse
    /\ cur_table \in InitialTables
    /\ hist_table = {}
    /\ sqs_log = <<>>
    /\ put_failed = [current |-> {}, history |-> {}]
    /\ cur_before = cur_table
    /\ IHOnly

SpecIHT == IHTInit /\ [][LambdaHandler]_vars

PEInit ==
    /\ pe_raw \in RawEvents
    /\ pe_out = NotParsed
    /\ pe_pc = "call"
    /\ PEOnly

\* one call parse_events(raw_event)
ParseEvents ==
    /\ pe_pc = "call"
    /\ pe_out' = parse_events(pe_raw)
    /\ pe_pc' = "done"
    /\ UNCHANGED <<pe_raw, exceptPE>>

SpecPE == PEInit /\ [][ParseEvents]_vars

PIPInit ==
    /\ pip_point \in GridPoints
    /\ pip_polygon \in Polygons
    /\ pip_out = FALSE
    /\ pip_pc = "call"
    /\ PIPOnly

\* one call point_in_polygon(point, polygon)
PointInPolygon ==
    /\ pip_pc = "call"
    /\ pip_out' = point_in_polygon(pip_point, pip_polygon)
    /\ pip_pc' = "done"
    /\ UNCHANGED <<pip_point, pip_polygon, exceptPIP>>

SpecPIP == PIPInit /\ [][PointInPolygon]_vars

\* a YOLOProcessor before a call: what __init__ or an earlier set_roi_spaces stored
ROIInit ==
    /\ roi_spaces \in StoredRoiSets
    /\ roi_op = "ready"
    /\ roi_arg = <<>>
    /\ roi_raised = ""
    /\ roi_before = <<>>
    /\ roi_occupancy = <<>>
    /\ roi_report = <<>>
    /\ ROIOnly

\* one call set_roi_spaces(spaces_config)
SetRoiSpaces ==
    /\ roi_op = "ready"
    /\ \E spaces_config \in RoiConfigs :
       \E r \in {set_roi_spaces(roi_spaces, spaces_config)} :
        /\ roi_spaces' = r.roi
        /\ roi_raised' = r.raised
        /\ roi_op' = "set_roi_spaces"
        /\ roi_arg' = spaces_config
        /\ roi_before' = roi_spaces
        /\ roi_occupancy' = <<>>
        /\ roi_report' = <<>>
        /\ UNCHANGED exceptROI

\* one call detect_parking_spaces() with ROIs stored, the model having returned
\* the detections
DetectParkingSpaces ==
    /\ roi_op = "ready"
    /\ roi_spaces # <<>>
    /\ \E detections \in DetectionLists :
       \E occupancy_map \in {_map_detections_to_spaces(roi_spaces, detections)} :
        /\ roi_occupancy' = occupancy_map
        /\ roi_report' = SpacesReport(roi_spaces, occupancy_map)
        /\ roi_op' = "detect_parking_spaces"
        /\ roi_arg' = detections
        /\ roi_raised' = ""
        /\ roi_before' = roi_spaces
        /\ UNCHANGED <<roi_spaces, exceptROI>>

SpecROI == ROIInit /\ [][SetRoiSpaces \/ DetectParkingSpaces]_vars

\* set_video on a source of 0..MaxFrames frames: the capture is at its start;
\* frame_skip was fixed by __init__ as max(frame_skip, 0)
VIDInit ==
    /\ vid_frames \in 0..MaxFrames
    /\ vid_skip \in 0..MaxFrameSkip
    /\ vid_pos = 0
    /\ vid_call = NoRead
    /\ VIDOnly

\* one call _read_video_frame()
ReadVideoFrame ==
    \E r \in {_read_video_frame(vid_frames, vid_pos, vid_skip)} :
        /\ vid_pos' = r.pos
        /\ vid_call' = [before |-> vid_pos, raised |-> r.raised, frame |-> r.frame,
                        rewinds |-> r.rewinds, reads |-> r.reads]
        /\ UNCHANGED <<vid_frames, vid_skip, exceptVID>>

SpecVID == VIDInit /\ [][ReadVideoFrame]_vars

\* SpaceStateTracker.__init__: the cache is empty
STInit ==
    /\ st_last = [s \in TrackedIds |-> NoState]
    /\ st_before = [s \in TrackedIds |-> NoState]
    /\ st_snapshot = <<>>
    /\ st_changes = <<>>
    /\ st_again = FALSE
    /\ st_pc = "__init__"
    /\ st_emitted = [s \in TrackedIds |-> ""]
    /\ st_recent = [s \in TrackedIds |-> ""]
    /\ st_repeated = FALSE
    /\ STOnly

\* the status each space was last listed with, after the entries of one more list
LastEmitted(emitted, entries) ==
    [s \in TrackedIds |->
        IF \E i \in DOMAIN entries : entries[i].space_id = s
        THEN entries[CHOOSE i \in DOMAIN entries :
                        /\ entries[i].space_id = s
                        /\ \A j \in DOMAIN entries : entries[j].space_id = s => j <= i].status
        ELSE emitted[s]]

\* a change of the list carries the status of the change emitted before it for its space
RepeatsStatus(emitted, changes) ==
    \E i \in DOMAIN changes :
        LastEmitted(emitted, SubSeq(changes, 1, i - 1))[changes[i].space_id] = changes[i].status

\* one call detect_changes(current_spaces); st_again records that the snapshot is
\* the one of the call before
DetectChanges ==
    \E current_spaces \in Snapshots :
    \E r \in {detect_changes(st_last, current_spaces)} :
        /\ st_last' = r.last_states
        /\ st_changes' = r.changes
        /\ st_before' = st_last
        /\ st_snapshot' = current_spaces
        /\ st_again' = (st_pc = "called" /\ current_spaces = st_snapshot)
        /\ st_pc' = "called"
        /\ st_emitted' = LastEmitted(st_emitted, r.changes)
        /\ st_recent' = LastEmitted(st_recent, [i \in DOMAIN current_spaces |->
                                        [space_id |-> current_spaces[i].key,
                                         status |-> current_spaces[i].value.status]])
        /\ st_repeated' = (st_repeated \/ RepeatsStatus(st_emitted, r.changes))
        /\ UNCHANGED exceptST

SpecST == STInit /\ [][DetectChanges]_vars

DAInit ==
    /\ da_alerts \in AlertLists
    /\ da_low_queue \in LowQueues
    /\ da_alerts_queue \in AlertsQueues
    /\ da_failing = {}
    /\ da_calls = <<>>
    /\ da_dlq = <<>>
    /\ da_raised = ""
    /\ da_pc = "call"
    /\ DAOnly

\* one call dispatch_alerts(alerts, sqs_client, low_conf_queue, alerts_queue), the
\* client choosing the sends that raise
DispatchAlerts ==
    /\ da_pc = "call"
    /\ \E failing \in SUBSET (DOMAIN da_alerts) :
       \E r \in {dispatch_alerts(da_alerts, failing, da_low_queue, da_alerts_queue)} :
        /\ da_failing' = failing
        /\ da_calls' = r.calls
        /\ da_raised' = r.raised
    /\ da_pc' = "done"
    /\ da_dlq' = da_dlq         \* no path of send_alert or dispatch_alerts calls sendMessageDLQ
    /\ UNCHANGED <<da_alerts, da_low_queue, da_alerts_queue, exceptDA>>

SpecDA == DAInit /\ [][DispatchAlerts]_vars

\* current_occupancy(table) is entered: occupied = 0, total = 0, exclusive_start_key = None
SCInit ==
    /\ sc_table \in ScannedTables
    /\ sc_key = 0
    /\ sc_resp = NoPage
    /\ sc_occupied = 0
    /\ sc_total = 0
    /\ sc_counted = <<>>
    /\ sc_pc = "scan"
    /\ SCOnly

\* response = table.scan(**scan_kwargs), storage choosing the page
ScanPage ==
    /\ sc_pc = "scan"
    /\ sc_resp' \in scan(sc_table, ExclusiveStartKey(sc_key), MaxPageSize)
    /\ sc_pc' = "count"
    /\ UNCHANGED <<sc_table, sc_key, sc_occupied, sc_total, sc_counted, exceptSC>>

\* the rest of the loop body: the page's items are counted, the key is taken from
\* the response, and the loop breaks (the function returns) when there is none
CountPage ==
    /\ sc_pc = "count"
    /\ \E c \in {CountItems(sc_table, sc_resp.Items, sc_occupied, sc_total)} :
        /\ sc_occupied' = c.occupied
        /\ sc_total' = c.total
    /\ sc_counted' = sc_counted \o sc_resp.Items
    /\ sc_key' = LastEvaluatedKey(sc_resp)
    /\ sc_pc' = IF LastEvaluatedKey(sc_resp) = 0 THEN "done" ELSE "scan"
    /\ UNCHANGED <<sc_table, sc_resp, exceptSC>>

SCNext == ScanPage \/ CountPage

\* The loop is sequential code: once a response is there, its page is counted.
SpecSC == SCInit /\ [][SCNext]_vars /\ WF_vars(CountPage)

\* main() has connected: change_tracker = SpaceStateTracker(), iteration = 0
EPInit ==
    /\ ep_iterations \in -1..MaxIterations
    /\ ep_iteration = 0
    /\ ep_last = [s \in TrackedIds |-> NoState]
    /\ ep_cycle = NoCycle
    /\ ep_cycles = 0
    /\ ep_pc = "loop"
    /\ EPOnly

\* one pass of the loop body: snapshot, detect_changes, then either the skip or the
\* publish (publish() hands the message to the client and returns a future that the
\* loop does not read).  Runs without end (iterations < 0) are cut at MaxCycles.
Cycle ==
    /\ ep_pc = "loop"
    /\ LoopContinues(ep_iterations, ep_iteration)
    /\ ep_cycles < MaxCycles
    /\ \E snapshot \in FullSnapshots :
       \E r \in {detect_changes(ep_last, snapshot)} :
        /\ ep_last' = r.last_states
        /\ IF r.changes = <<>>
           THEN /\ ep_cycle' = [before |-> ep_last, snapshot |-> snapshot,
                                changes |-> r.changes, publishes |-> <<>>]
                /\ ep_iteration' = SkippedCycle(ep_iteration)
           ELSE /\ ep_cycle' = [before |-> ep_last, snapshot |-> snapshot, changes |-> r.changes,
                                publishes |-> <<publish_change_events("topic",
                                                  build_change_payload(r.changes, Metadata))>>]
                /\ ep_iteration' = ep_iteration + 1
    /\ ep_cycles' = ep_cycles + 1
    /\ UNCHANGED <<ep_iterations, ep_pc, exceptEP>>

\* the loop condition is false: mqtt_connection.disconnect()
Disconnect ==
    /\ ep_pc = "loop"
    /\ ~LoopContinues(ep_iterations, ep_iteration)
    /\ ep_pc' = "disconnected"
    /\ UNCHANGED <<ep_iterations, ep_iteration, ep_last, ep_cycle, ep_cycles, exceptEP>>

EPNext == Cycle \/ Disconnect

SpecEP == EPInit /\ [][EPNext]_vars

\* every invocation has validated its event and is about to call save_current
CCInit ==
    /\ cc_items \in {f \in [Invocations -> UNION {ItemsOf(i) : i \in Invocations}] :
                        \A i \in Invocations : f[i] \in ItemsOf(i)}
    /\ cc_pc = [i \in Invocations |-> "put"]
    /\ cc_entry = NoEntry
    /\ cc_order = <<>>
    /\ CCOnly

\* save_current of invocation i: its put_item succeeds
PutCurrent(i) ==
    /\ cc_pc[i] = "put"
    /\ cc_entry' = put_item(cc_entry, cc_items[i])
    /\ cc_order' = Append(cc_order, i)
    /\ cc_pc' = [cc_pc EXCEPT ![i] = "written"]
    /\ UNCHANGED <<cc_items, exceptCC>>

\* save_current of invocation i: its put_item raises, the error is logged
PutRaises(i) ==
    /\ cc_pc[i] = "put"
    /\ cc_pc' = [cc_pc EXCEPT ![i] = "failed"]
    /\ UNCHANGED <<cc_items, cc_entry, cc_order, exceptCC>>

CCNext == \E i \in Invocations : PutCurrent(i) \/ PutRaises(i)

SpecCC == CCInit /\ [][CCNext]_vars

\* ------------------------------------------------------------ claims on qa.validate_data

Validated == qa_out # Pending

ReasonOrder ==
    <<"Missing space_id", "Invalid confidence type", "Confidence out of range",
      "Invalid status", "Invalid timestamp">>

GoodSpaceId == PyStr(<<"A", "-", "0", "1">>)
GoodData ==
    [confidence |-> PyFloat(95),
     status |-> PyStr(<<"o","c","c","u","p","i","e","d">>),
     timestamp |-> PyStr(<<"2025-11-03T21:36:00", "Z">>)]

\* The event with every field but the one check i reads put to a good value.
OnlyField(i, in) ==
    CASE i = 1 -> [space_id |-> in.space_id, data |-> GoodData]
      [] i \in {2, 3} ->
            [space_id |-> GoodSpaceId, data |-> [GoodData EXCEPT !.confidence = in.data.confidence]]
      [] i = 4 -> [space_id |-> GoodSpaceId, data |-> [GoodData EXCEPT !.status = in.data.status]]
      [] OTHER ->
            [space_id |-> GoodSpaceId, data |-> [GoodData EXCEPT !.timestamp = in.data.timestamp]]

\* Check i, taken alone, fails on the event.
FailsAlone(i, in) ==
    LET r == validate_data(OnlyField(i, in).space_id, OnlyField(i, in).data)
    IN  ~r.ok /\ r.reason.kind = ReasonOrder[i]

FailingChecks(in) == {i \in DOMAIN ReasonOrder : FailsAlone(i, in)}

FirstOf(S) == CHOOSE i \in S : \A j \in S : i <= j

\* C1: validate_data returns the reason of the first check, in the order space_id,
\* confidence type, confidence range, status, timestamp, that the event fails, and
\* accepts with an empty reason an event that fails none.
C1_FirstFailingCheckWins ==
    Validated =>
        IF FailingChecks(qa_in) = {}
        THEN qa_out = Accept
        ELSE ~qa_out.ok /\ qa_out.reason.kind = ReasonOrder[FirstOf(FailingChecks(qa_in))]

C1_Witness ==
    /\ Validated
    /\ FailingChecks(qa_in) = {2, 4, 5}
    /\ qa_out.reason.kind = "Invalid confidence type"

IgnoreCaseEq(chars, word) ==
    /\ Len(chars) = Len(word)
    /\ \A i \in DOMAIN word :
        \/ chars[i] = word[i]
        \/ \E k \in DOMAIN LowerLetters : LowerLetters[k] = word[i] /\ UpperLetters[k] = chars[i]

StatusMatches(v) ==
    /\ v.t = "str"
    /\ \/ IgnoreCaseEq(v.s, <<"o","c","c","u","p","i","e","d">>)
       \/ IgnoreCaseEq(v.s, <<"v","a","c","a","n","t">>)

\* The timestamp is a string that reads as ISO-8601 once a 'Z' is read as +00:00.
ParsesAsIso(v) == v.t = "str" /\ FromIsoFormatOk(ReplaceZ(v.s))

NonEmptyStr(v) == v.t = "str" /\ v.s # <<>>

\* Python's numeric types: int, float, and bool (a subclass of int: True is 1).
IsNumber(v) == v.t \in {"int", "float", "bool"}
InUnitInterval(v) ==
    IF v.t = "float" THEN 0 <= v.n /\ v.n <= 100 ELSE v.n \in {0, 1}

\* C2: with a non-empty space_id, a valid status and a valid timestamp, the event is
\* accepted iff its confidence is a number in [0, 1], ends included; a missing or
\* non-numeric confidence gives "Invalid confidence type", a number outside the
\* interval "Confidence out of range".
C2_ConfidenceClosedInterval ==
    (/\ Validated
     /\ NonEmptyStr(qa_in.space_id)
     /\ StatusMatches(qa_in.data.status)
     /\ ParsesAsIso(qa_in.data.timestamp))
    =>
    LET c == qa_in.data.confidence
    IN  /\ qa_out.ok <=> (IsNumber(c) /\ InUnitInterval(c))
        /\ ~IsNumber(c) => qa_out.reason.kind = "Invalid confidence type"
        /\ (IsNumber(c) /\ ~InUnitInterval(c)) =>
                /\ qa_out.reason.kind = "Confidence out of range"
                /\ qa_out.reason.n = ToFloat(c)

C2_Witness ==
    /\ Validated
    /\ NonEmptyStr(qa_in.space_id)
    /\ StatusMatches(qa_in.data.status)
    /\ ParsesAsIso(qa_in.data.timestamp)
    /\ qa_in.data.confidence = PyFloat(0)
    /\ qa_out.ok

\* C3: an event that passes the space_id and confidence checks passes the status
\* check iff its status is "occupied" or "vacant" in any letter case; every other
\* status, the empty string and a missing one included, gives "Invalid status".
C3_StatusCaseInsensitive ==
    (/\ Validated
     /\ NonEmptyStr(qa_in.space_id)
     /\ IsNumber(qa_in.data.confidence)
     /\ InUnitInterval(qa_in.data.confidence))
    =>
    /\ StatusMatches(qa_in.data.status) <=> (qa_out.ok \/ qa_out.reason.kind = "Invalid timestamp")
    /\ ~StatusMatches(qa_in.data.status) => qa_out.reason.kind = "Invalid status"

C3_Witness ==
    /\ Validated
    /\ NonEmptyStr(qa_in.space_id)
    /\ IsNumber(qa_in.data.confidence)
    /\ InUnitInterval(qa_in.data.confidence)
    /\ qa_in.data.status = PyStr(<<"o","C","c","U","p","I","e","D">>)
    /\ qa_out.ok

\* C4: an event that passes the space_id, confidence and status checks and carries a
\* timestamp value is accepted only if that value parses as ISO-8601; every value that
\* does not parse, the empty string and a non-string included, gives "Invalid timestamp".
C4_UnparsableTimestampRejected ==
    (/\ Validated
     /\ NonEmptyStr(qa_in.space_id)
     /\ IsNumber(qa_in.data.confidence)
     /\ InUnitInterval(qa_in.data.confidence)
     /\ StatusMatches(qa_in.data.status)
     /\ qa_in.data.timestamp \notin {Absent, None})
    =>
    /\ qa_out.ok => ParsesAsIso(qa_in.data.timestamp)
    /\ ~ParsesAsIso(qa_in.data.timestamp) =>
            ~qa_out.ok /\ qa_out.reason.kind = "Invalid timestamp"

\* ------------------------------------------------------------ claims on generate_alerts

AlertsOfType(alerts, type) == {i \in DOMAIN alerts : alerts[i].type = type}

\* C5: for occupancy_stats (occupied, total) with 0 <= occupied <= total there is exactly
\* one CRITICAL alert iff occupied/total >= 0.95, exactly one HIGH alert iff
\* 0.80 <= occupied/total < 0.95, no occupancy alert below 0.80 (total = 0 counts as
\* ratio 0), and never a CRITICAL together with a HIGH.
C5_OccupancyTiers ==
    (ga_pc = "done" /\ ga_stats # NoStats) =>
    LET occupied == ga_stats[1]
        total == ga_stats[2]
        critical == total > 0 /\ 20 * occupied >= 19 * total
        high == total > 0 /\ 5 * occupied >= 4 * total /\ ~critical
        nCritical == Cardinality(AlertsOfType(ga_out, "CRITICAL"))
        nHigh == Cardinality(AlertsOfType(ga_out, "HIGH"))
    IN  /\ nCritical = (IF critical THEN 1 ELSE 0)
        /\ nHigh = (IF high THEN 1 ELSE 0)
        /\ nCritical + nHigh <= 1
        /\ \A i \in AlertsOfType(ga_out, "CRITICAL") : ga_out[i].severity = "CRITICAL"

C5_Witness ==
    /\ ga_pc = "done"
    /\ ga_stats = <<19, 20>>
    /\ Cardinality(AlertsOfType(ga_out, "CRITICAL")) = 1
    /\ AlertsOfType(ga_out, "HIGH") = {}

\* C6: there is exactly one LOW_CONFIDENCE alert, of severity WARNING and with the item's
\* space_id, for each item of confidence < 0.8, in the items' order, and none for an
\* item of confidence >= 0.8, whatever the occupancy.
C6_OneLowConfidencePerItem ==
    ga_pc = "done" =>
    LET under == {i \in DOMAIN ga_items : 100 * ga_items[i].confidence < 8000}
        low == AlertsOfType(ga_out, "LOW_CONFIDENCE")
    IN  /\ Cardinality(low) = Cardinality(under)
        /\ \A s \in ItemSpaceIds :
            Cardinality({i \in low : ga_out[i].space_id = s})
                = Cardinality({i \in under : ga_items[i].space_id = s})
        /\ \A i \in low : ga_out[i].severity = "WARNING"

C6_Witness ==
    /\ ga_pc = "done"
    /\ Len(ga_items) = 2
    /\ ga_items[1].confidence = 80
    /\ ga_items[2].confidence = 79
    /\ ga_stats = <<4, 5>>
    /\ Cardinality(AlertsOfType(ga_out, "LOW_CONFIDENCE")) = 1

\* ------------------------------------------------------------ claims on lambda_handler

Returned == ih_pc = "done"
NoPutFailed == put_failed = [current |-> {}, history |-> {}]

\* The events of the invocation's batch that pass, and that fail, validation.
PassesValidation(entry) == validate_data(GoodSpaceId, entry.data).ok
ValidEvents == {i \in DOMAIN ih_event.batch : PassesValidation(ih_event.batch[i])}
InvalidEvents == DOMAIN ih_event.batch \ ValidEvents

SentTypes == {sqs_log[i].alert.type : i \in DOMAIN sqs_log}

\* C7: the HIGH/CRITICAL alert of an invocation follows occupied/total over the spaces in
\* current-state storage after the batch's writes, not over the batch: CRITICAL is sent
\* iff that ratio is >= 0.95, HIGH iff it is in [0.80, 0.95).
C7_OccupancyOverStorage ==
    (Returned /\ ih_resp.statusCode = 200 /\ NoPutFailed) =>
    LET occupied == current_occupancy(cur_table)[1]
        total == current_occupancy(cur_table)[2]
        critical == total > 0 /\ 20 * occupied >= 19 * total
        high == total > 0 /\ 5 * occupied >= 4 * total /\ ~critical
    IN  /\ "CRITICAL" \in SentTypes <=> critical
        /\ "HIGH" \in SentTypes <=> high

\* C8: for a batch handled against empty storage, the alerts reported and the alerts
\* dispatched both number the accepted events of confidence < 0.8, plus one when the
\* resulting occupancy is >= 0.80.
C8_AlertCountOnEmptyStorage ==
    (/\ Returned
     /\ ih_event.shape \in BatchShapes
     /\ ValidEvents # {}
     /\ \A s \in Spaces : cur_before[s] = NoItem
     /\ NoPutFailed)
    =>
    LET low == {i \in ValidEvents : ToFloat(ih_event.batch[i].data.confidence) < 80}
        occupied == current_occupancy(cur_table)[1]
        total == current_occupancy(cur_table)[2]
        expected == Cardinality(low) + (IF total > 0 /\ 5 * occupied >= 4 * total THEN 1 ELSE 0)
    IN  /\ "alerts" \in ih_resp.keys
        /\ ih_resp.alerts = expected
        /\ Len(sqs_log) = expected

\* C9: invoked with a list of per-space events, lambda_handler returns 200 with success
\* true and items equal to the number of events of the list that pass validation.
C9_ListOfEventsAccepted ==
    (Returned /\ ih_event.shape = "list" /\ ValidEvents # {}) =>
    /\ ih_resp.statusCode = 200
    /\ "success" \in ih_resp.keys
    /\ "items" \in ih_resp.keys
    /\ ih_resp.items = Cardinality(ValidEvents)

\* C10: for every batch the response body reports rejected = the number of events that
\* fail validation, also when all fail; when at least one passes it reports items = the
\* number that pass, so that items + rejected is the size of the batch.
C10_RejectedCounted ==
    (Returned /\ ih_event.shape \in BatchShapes) =>
    /\ "rejected" \in ih_resp.keys
    /\ ih_resp.rejected = Cardinality(InvalidEvents)
    /\ ValidEvents # {} =>
        /\ "items" \in ih_resp.keys
        /\ ih_resp.items = Cardinality(ValidEvents)
        /\ ih_resp.items + ih_resp.rejected = Len(ih_event.batch)

\* ------------------------------------------------------------ claims on parser.parse_events

Parsed == pe_pc = "done"

\* the payload is a mapping, given as a dict or as the JSON text of one
IsMapping == pe_raw.t = "dict" \/ (pe_raw.t = "str" /\ pe_raw.loads = "dict")

HasEventsList == pe_raw.d.events # Absent /\ pe_raw.d.events.t = "list"
HasSpaces == pe_raw.d.spaces # Absent
HasSpaceId == pe_raw.d.space_id # Absent

\* `spaces` holds a mapping whose values are all records
SpacesOfRecords ==
    /\ HasSpaces
    /\ pe_raw.d.spaces.t = "dict"
    /\ \A i \in DOMAIN pe_raw.d.spaces.list : pe_raw.d.spaces.list[i].data.t = "dict"

\* `spaces` holds nothing to fan out: null, or an empty mapping, list or string
SpacesEmpty == HasSpaces /\ FalsyValue(pe_raw.d.spaces)

\* the result has one event per entry of `spaces`, in the order of the entries
OnePerKey ==
    /\ pe_out.raised = ""
    /\ Len(pe_out.events) = Len(pe_raw.d.spaces.list)
    /\ \A i \in DOMAIN pe_out.events :
           pe_out.events[i].status = pe_raw.d.spaces.list[i].data.d.status

\* C11: for a mapping payload parse_events returns the `events` list when `events`
\* holds a list, whatever other keys are present; otherwise the fan-out of `spaces`
\* (one event per entry, none for an empty value) when `spaces` is present; otherwise
\* one event when `space_id` is present; otherwise an empty list.  The fan-out is
\* stated where `spaces` holds a mapping of records or an empty value.
C11_ShapePrecedence ==
    (Parsed /\ IsMapping) =>
        IF HasEventsList THEN pe_out = Returns(pe_raw.d.events.list)
        ELSE IF SpacesOfRecords THEN OnePerKey
        ELSE IF SpacesEmpty THEN pe_out = Returns(<<>>)
        ELSE IF HasSpaces THEN TRUE
        ELSE IF HasSpaceId
        THEN /\ pe_out.raised = ""
             /\ Len(pe_out.events) = 1
             /\ pe_out.events[1].space_id = pe_raw.d.space_id
        ELSE pe_out = Returns(<<>>)

C11_Witness ==
    /\ Parsed /\ IsMapping
    /\ HasEventsList /\ SpacesOfRecords /\ HasSpaceId
    /\ pe_raw.d.spaces.list # <<>>
    /\ pe_raw.d.events.list # <<>>
    /\ pe_out = Returns(pe_raw.d.events.list)

InheritedFields == {"timestamp", "device_id", "facility_id", "zone_id"}

\* C12: on a legacy snapshot parse_events returns one event per key of `spaces`, in
\* the order of the mapping; a field of timestamp, device_id, facility_id, zone_id
\* that the inner record has keeps the inner value, and one the inner record lacks
\* takes the top-level value when the payload has one.
C12_LegacyFanOutInherits ==
    (Parsed /\ IsMapping /\ ~HasEventsList /\ SpacesOfRecords) =>
        /\ OnePerKey
        /\ \A i \in DOMAIN pe_out.events : \A f \in InheritedFields :
            LET inner == pe_raw.d.spaces.list[i].data.d[f]
                top == pe_raw.d[f]
                got == pe_out.events[i][f]
            IN  /\ inner # Absent => got = inner
                /\ (inner = Absent /\ top # Absent /\ ~Falsy(top)) => got = top
                /\ (got # inner) => inner = Absent

C12_Witness ==
    /\ Parsed /\ IsMapping /\ ~HasEventsList /\ SpacesOfRecords
    /\ Len(pe_out.events) = 2
    /\ pe_raw.d.device_id = PyStr(<<"device-1">>)
    /\ pe_out.events[1].device_id = PyStr(<<"device-1">>)
    /\ pe_out.events[1].timestamp = pe_raw.d.timestamp
    /\ pe_out.events[2].device_id = PyStr(<<"cam-7">>)
    /\ pe_out.events[2].timestamp = PyStr(<<"2025-11-03">>)

\* C13: parse_events never raises, and it returns an empty list for null, for text
\* that is not JSON or is the JSON of a scalar, for a mapping of no documented shape
\* and for a mapping whose `spaces` value is not a mapping of records.
C13_NeverRaises ==
    Parsed =>
        /\ pe_out.raised = ""
        /\ pe_raw.t \in {"NoneType", "int"} => pe_out.events = <<>>
        /\ (pe_raw.t = "str" /\ pe_raw.loads \in {"JSONDecodeError", "NoneType", "int", "str"})
               => pe_out.events = <<>>
        /\ (IsMapping /\ ~HasEventsList /\ ~HasSpaces /\ ~HasSpaceId) => pe_out.events = <<>>
        /\ (IsMapping /\ ~HasEventsList /\ HasSpaces /\ ~SpacesOfRecords) => pe_out.events = <<>>


\* ------------------------------------------------------------ claims on point_in_polygon

Located == pip_pc = "done"

\* the bounds of the polygon's vertices
MinOf(S) == CHOOSE m \in S : \A k \in S : m <= k
MaxOf(S) == CHOOSE m \in S : \A k \in S : m >= k
Xs == {pip_polygon[i][1] : i \in DOMAIN pip_polygon}
Ys == {pip_polygon[i][2] : i \in DOMAIN pip_polygon}

IsRectangle == pip_polygon \in RectPolygons

StrictlyInside ==
    /\ MinOf(Xs) < pip_point[1] /\ pip_point[1] < MaxOf(Xs)
    /\ MinOf(Ys) < pip_point[2] /\ pip_point[2] < MaxOf(Ys)

StrictlyOutside ==
    \/ pip_point[1] < MinOf(Xs) \/ pip_point[1] > MaxOf(Xs)
    \/ pip_point[2] < MinOf(Ys) \/ pip_point[2] > MaxOf(Ys)

\* C14: for an axis-aligned rectangle with integer corners, given from any vertex
\* in either winding direction, point_in_polygon is true for an integer point
\* strictly inside and false for one strictly outside; for a polygon of fewer than
\* 3 vertices it is false for every point.
C14_RectangleInsideOutside ==
    Located =>
        /\ (IsRectangle /\ StrictlyInside) => pip_out = TRUE
        /\ (IsRectangle /\ StrictlyOutside) => pip_out = FALSE
        /\ Len(pip_polygon) < 3 => pip_out = FALSE

C14_Witness ==
    /\ Located
    /\ pip_polygon = Rotate(Reverse(Rect(0, 0, 4, 4)), 3)
    /\ pip_point = <<2, 2>>
    /\ pip_out = TRUE

\* the point lies on the boundary of the rectangle
OnEdge ==
    /\ IsRectangle
    /\ MinOf(Xs) <= pip_point[1] /\ pip_point[1] <= MaxOf(Xs)
    /\ MinOf(Ys) <= pip_point[2] /\ pip_point[2] <= MaxOf(Ys)
    /\ ~StrictlyInside

\* C15: point_in_polygon is true for a point exactly on an edge of an axis-aligned
\* rectangle, on each of its left, right, bottom and top edges.
C15_EdgePointsInside ==
    (Located /\ OnEdge) => pip_out = TRUE


\* ------------------------------------------------------------ claims on YOLOProcessor

KeysOf(d) == {d[i].key : i \in DOMAIN d}

RoiWasSet == roi_op = "set_roi_spaces"
HasMalformedEntry == \E i \in DOMAIN roi_arg : roi_arg[i] \in MalformedEntries

\* _roi_spaces holds the spaces of the configuration and no other: its keys are the
\* space_ids of the entries, each with the polygon of the last entry of that space_id
StoresConfiguration ==
    /\ KeysOf(roi_spaces) = {roi_arg[i].space_id : i \in DOMAIN roi_arg}
    /\ \A i \in DOMAIN roi_arg :
           (\A j \in (i + 1)..Len(roi_arg) : roi_arg[j].space_id # roi_arg[i].space_id)
               => DictGet(roi_spaces, roi_arg[i].space_id) = Normalized(roi_arg[i].polygon)

\* C16: set_roi_spaces either stores exactly the spaces of the given configuration,
\* discarding the spaces stored before, or fails and leaves the stored ROI set
\* unchanged; a configuration with a malformed entry at any position stores nothing.
C16_RoiSetAtomic ==
    RoiWasSet =>
        /\ \/ roi_raised = "" /\ StoresConfiguration
           \/ roi_raised # "" /\ roi_spaces = roi_before
        /\ HasMalformedEntry => (roi_raised # "" /\ roi_spaces = roi_before)
        /\ (roi_arg # <<>> /\ ~HasMalformedEntry) => roi_raised = ""

C16_Witness ==
    /\ RoiWasSet
    /\ Len(roi_arg) = 2
    /\ roi_arg[1] \in ValidEntries
    /\ roi_arg[2] \in MalformedEntries
    /\ roi_before # <<>>
    /\ roi_arg[1].space_id \notin KeysOf(roi_before)
    /\ roi_raised # ""
    /\ roi_spaces = roi_before

Detected == roi_op = "detect_parking_spaces"

\* the position in _roi_spaces of the space a detection belongs to: the smallest
\* one whose polygon contains its center; 0 without center or containing polygon
SpaceOf(detection) ==
    LET containing == {i \in DOMAIN roi_spaces :
                          point_in_polygon(detection.center, roi_spaces[i].value)}
    IN  IF ~detection.has_center \/ containing = {} THEN 0 ELSE MinOf(containing)

AssignedTo(i) == {k \in DOMAIN roi_arg : SpaceOf(roi_arg[k]) = i}

\* C17: each detection is assigned to the first ROI in stored order that contains
\* its center; the value returned for a space is the maximum confidence of the
\* detections assigned to it, the same for the detections in reverse order; a space
\* without assigned detection is absent from the result and is reported vacant.
C17_FirstRoiMaxConfidence ==
    Detected =>
        \A i \in DOMAIN roi_spaces :
            LET space_id == roi_spaces[i].key
            IN  IF AssignedTo(i) = {}
                THEN /\ ~HasKey(roi_occupancy, space_id)
                     /\ roi_report[i].value.status = "vacant"
                ELSE /\ HasKey(roi_occupancy, space_id)
                     /\ DictGet(roi_occupancy, space_id)
                            = MaxOf({DetectionConfidence(roi_arg[k]) : k \in AssignedTo(i)})
                     /\ DictGet(_map_detections_to_spaces(roi_spaces, Reverse(roi_arg)), space_id)
                            = DictGet(roi_occupancy, space_id)
                     /\ roi_report[i].value.status = "occupied"

C17_Witness ==
    /\ Detected
    /\ Len(roi_spaces) = 2
    /\ Len(roi_arg) = 2
    /\ roi_arg[1].center = <<3, 3>> /\ roi_arg[1].confidence = PyFloat(55)
    /\ roi_arg[2].center = <<1, 1>> /\ roi_arg[2].confidence = PyFloat(90)
    /\ point_in_polygon(<<3, 3>>, roi_spaces[1].value)
    /\ point_in_polygon(<<3, 3>>, roi_spaces[2].value)
    /\ point_in_polygon(<<1, 1>>, roi_spaces[1].value)
    /\ DictGet(roi_occupancy, roi_spaces[1].key) = 90
    /\ ~HasKey(roi_occupancy, roi_spaces[2].key)
    /\ roi_report[2].value.status = "vacant"


\* ------------------------------------------------------------ claims on _read_video_frame

FrameWasRead == vid_call # NoRead /\ vid_call.raised # "idle"

\* the frame the k-th read after position `before` delivers on a looping capture
LoopedFrame(before, k) == ((before % vid_frames) + k - 1) % vid_frames

\* C18 (as the code has it): a call makes frame_skip + 1 reads that deliver a frame
\* and returns the last of them, the capture looping to frame 0 at its end; every
\* read that fails is followed by one rewind and one retry, so a call makes at most
\* frame_skip + 1 rewinds; the call fails iff a retried read fails, which is on a
\* capture without frames; on a capture with at least one frame every call returns
\* a frame.
C18_SkipAndLoop ==
    FrameWasRead =>
        /\ vid_call.reads = (vid_skip + 1) + vid_call.rewinds \/ vid_call.raised # ""
        /\ vid_call.rewinds <= vid_skip + 1
        /\ vid_frames >= 1 =>
               /\ vid_call.raised = ""
               /\ vid_call.frame = LoopedFrame(vid_call.before, vid_skip + 1)
               /\ vid_pos = vid_call.frame + 1
               /\ (vid_call.rewinds = 0) = (vid_call.before + vid_skip + 1 <= vid_frames)
        /\ vid_frames = 0 =>
               /\ vid_call.raised = "RuntimeError"
               /\ vid_call.rewinds = 1 /\ vid_call.reads = 2

C18_Witness ==
    /\ FrameWasRead
    /\ vid_frames = 2 /\ vid_skip = 2
    /\ vid_call.before = 2
    /\ vid_call.rewinds = 2
    /\ vid_call.raised = ""
    /\ vid_call.frame = 0

\* C18 (as stated): a call advances the capture by frame_skip + 1 frames, makes at
\* most one rewind, fails when the retried read fails, and returns a frame on a
\* capture with at least one frame.
C18_AtMostOneRewind ==
    FrameWasRead =>
        /\ vid_call.rewinds <= 1
        /\ vid_frames >= 1 =>
               /\ vid_call.raised = ""
               /\ vid_call.frame = LoopedFrame(vid_call.before, vid_skip + 1)
        /\ vid_frames = 0 => vid_call.raised = "RuntimeError"


\* ------------------------------------------------------------ claims on SpaceStateTracker

ChangesDetected == st_pc = "called"

\* the spaces of the snapshot whose status is not the one cached before the call
Differing ==
    {st_snapshot[i].key : i \in {j \in DOMAIN st_snapshot :
        st_before[st_snapshot[j].key] = NoState
        \/ st_before[st_snapshot[j].key].status # st_snapshot[j].value.status}}

\* C19: detect_changes returns exactly the spaces of the snapshot whose status
\* differs from the cached one or that were never seen, each once, also when only
\* the confidence changed; called again with the same snapshot it returns an empty
\* list.
C19_ExactlyTheChanged ==
    ChangesDetected =>
        /\ {st_changes[i].space_id : i \in DOMAIN st_changes} = Differing
        /\ \A i, j \in DOMAIN st_changes :
               st_changes[i].space_id = st_changes[j].space_id => i = j
        /\ \A i \in DOMAIN st_changes :
               [key |-> st_changes[i].space_id,
                value |-> [status |-> st_changes[i].status,
                           confidence |-> st_changes[i].confidence]]
                   \in {st_snapshot[k] : k \in DOMAIN st_snapshot}
        /\ st_again => st_changes = <<>>

C19_Witness ==
    /\ ChangesDetected
    /\ Len(st_snapshot) = 2
    /\ st_before[SpaceKey(1)] = [status |-> "occupied", confidence |-> 55]
    /\ st_snapshot[1].value = [status |-> "occupied", confidence |-> 90]
    /\ st_before[SpaceKey(2)] = [status |-> "occupied", confidence |-> 90]
    /\ st_snapshot[2].value = [status |-> "vacant", confidence |-> 0]
    /\ Len(st_changes) = 1
    /\ st_changes[1].space_id = SpaceKey(2)


\* ------------------------------------------------------------ claims on dispatch_alerts

Dispatched == da_pc = "done"

\* the queue an alert is to go to
QueueOf(i) ==
    IF da_alerts[i].type = "LOW_CONFIDENCE" THEN da_low_queue ELSE da_alerts_queue

QueueConfigured(i) == QueueOf(i) \notin {None, PyStr(<<>>)}

CallsFor(i) == {k \in DOMAIN da_calls : da_calls[k].index = i}

\* C20: dispatch_alerts makes at most one send attempt per alert, in list order, to
\* the low-confidence queue iff the alert's type is LOW_CONFIDENCE and to the alerts
\* queue otherwise; a send that fails or a queue that is missing for one alert does
\* not prevent the attempt for a later alert, is not retried and does not raise.
C20_OneAttemptPerAlert ==
    Dispatched =>
        /\ da_raised = ""
        /\ \A i \in DOMAIN da_alerts :
               Cardinality(CallsFor(i)) = IF QueueConfigured(i) THEN 1 ELSE 0
        /\ \A k \in DOMAIN da_calls :
               /\ da_calls[k].index \in DOMAIN da_alerts
               /\ da_calls[k].QueueUrl = QueueOf(da_calls[k].index)
               /\ da_calls[k].MessageBody = da_alerts[da_calls[k].index]
               /\ da_calls[k].raised = (da_calls[k].index \in da_failing)
        /\ \A k, m \in DOMAIN da_calls : k < m => da_calls[k].index < da_calls[m].index

C20_Witness ==
    /\ Dispatched
    /\ Len(da_alerts) = 3
    /\ da_alerts[1].type = "LOW_CONFIDENCE" /\ ~QueueConfigured(1)
    /\ da_alerts[2].type = "CRITICAL" /\ 2 \in da_failing
    /\ da_alerts[3].type = "HIGH"
    /\ Len(da_calls) = 2
    /\ da_calls[1].raised /\ da_calls[1].index = 2
    /\ ~da_calls[2].raised /\ da_calls[2].index = 3
    /\ da_raised = ""


\* C21: every alert whose send to its queue fails is forwarded once to the
\* dead-letter sink, with the original message.
C21_FailedSendsToDLQ ==
    Dispatched =>
        \A k \in DOMAIN da_calls :
            da_calls[k].raised =>
                Cardinality({m \in DOMAIN da_dlq :
                                da_dlq[m].original_message = da_calls[k].MessageBody}) = 1

\* ------------------------------------------------------------ claims on current_occupancy

ScanReturned == sc_pc = "done"
LastPageAnswered == sc_pc = "count" /\ sc_resp.LastEvaluatedKey = 0

\* C22: current_occupancy passes each continuation token to the next scan until a
\* page comes without one, returns (occupied, total) over the items of all pages,
\* each item counted once, and returns once storage answers a page without a token.
C22_ScanCountsEveryPage ==
    /\ [](sc_pc = "count" => sc_resp.Items = [i \in 1..Len(sc_resp.Items) |-> sc_key + i])
    /\ [](ScanReturned =>
            /\ sc_counted = [i \in 1..Len(sc_table) |-> i]
            /\ sc_total = Len(sc_table)
            /\ sc_occupied = Cardinality({i \in DOMAIN sc_table : sc_table[i] = "occupied"}))
    /\ (LastPageAnswered ~> ScanReturned)

\* a table of three items read in more than one page, an occupied item among them
C22_Witness ==
    /\ ScanReturned
    /\ Len(sc_table) = 3
    /\ sc_resp.Items # <<>>
    /\ Len(sc_resp.Items) < 3
    /\ sc_occupied \in 1..2

\* ------------------------------------------------------------ claims on failures inside lambda_handler

SnapshotShapes == {"spaces", "body_spaces"}
SpaceOfEvent(i) == ih_event.batch[i].space_id

\* the event was accepted and its put on each table was attempted: the item is in
\* the table unless that put is among those that raised
PutAttempted(i) ==
    /\ SpaceOfEvent(i) \notin put_failed.current =>
         /\ cur_table[SpaceOfEvent(i)].space_id = SpaceOfEvent(i)
         /\ cur_table[SpaceOfEvent(i)].status = ih_event.batch[i].data.status
    /\ SpaceOfEvent(i) \notin put_failed.history =>
         \E h \in hist_table : /\ h.space_id = SpaceOfEvent(i)
                               /\ h.status = ih_event.batch[i].data.status

\* C23: an event that fails validation, or whose put fails, affects only itself: every
\* valid event of the snapshot is accepted and put on both tables, and the response is
\* not a 500.
C23_FailuresAreLocal ==
    (Returned /\ ih_event.shape \in SnapshotShapes) =>
    /\ ih_resp.statusCode # 500
    /\ \A i \in ValidEvents : PutAttempted(i)

\* the exception that ends the invocation's try block, "" when there is none
HandlerException ==
    IF PayloadError(ih_event) # "" THEN PayloadError(ih_event)
    ELSE QALoop(PayloadSpaces(ih_event), 1, ih_event.payload, <<>>, 0).raised

\* the items the handler built from the events it accepted
AcceptedItems == QALoop(PayloadSpaces(ih_event), 1, ih_event.payload, <<>>, 0).items

StorageUntouched == cur_table = cur_before /\ hist_table = {}

\* C24: lambda_handler returns for every event: 200 when at least one event was
\* accepted, 400 when none was (nothing written, no alert sent), 500 with the error
\* message on an unexpected error, storage keeping what it held.
C24_StatusByOutcome ==
    /\ ih_pc = "ready" => ENABLED LambdaHandler
    /\ Returned =>
        \A exception \in {HandlerException} :
        \A accepted \in {IF exception # "" THEN <<>> ELSE AcceptedItems} :
        /\ ih_resp.statusCode \in {200, 400, 500}
        /\ ih_resp.statusCode = 200 <=> (exception = "" /\ accepted # <<>>)
        /\ ih_resp.statusCode = 400 <=> (exception = "" /\ accepted = <<>>)
        /\ ih_resp.statusCode = 500 <=> exception # ""
        /\ ih_resp.statusCode = 400 => (StorageUntouched /\ sqs_log = <<>>)
        /\ ih_resp.statusCode = 500 =>
            /\ ih_resp.keys = {"error"}
            /\ ih_resp.error = exception
            /\ StorageUntouched

\* a snapshot whose second record raises after the first was validated, on storage
\* that already holds items
C24_Witness ==
    /\ Returned
    /\ ih_resp.statusCode = 500
    /\ ih_event.shape = "spaces"
    /\ Len(ih_event.batch) >= 2
    /\ PassesValidation(ih_event.batch[1])
    /\ \E s \in Spaces : cur_table[s] # NoItem

\* ------------------------------------------------------------ claims on the edge publisher loop

CycleRan == ep_cycles > 0

\* the published events are the changes, one for one and in order
CarriesExactly(message, changes) ==
    /\ Len(message.payload) = Len(changes)
    /\ \A i \in DOMAIN changes :
        /\ message.payload[i].space_id = changes[i].space_id
        /\ message.payload[i].status = changes[i].status
        /\ message.payload[i].confidence = changes[i].confidence

InSnapshot(s) == \E i \in DOMAIN st_snapshot : st_snapshot[i].key = s

\* C26: after any sequence of detect_changes calls, for every space seen in a
\* snapshot the last change emitted for it, the most recent snapshot holding it and
\* the cache agree on its status; no change repeats the status of the change before
\* it for the same space; a space absent from a snapshot keeps its cached entry.
C26_CacheFollowsSnapshots ==
    ChangesDetected =>
        /\ \A s \in TrackedIds :
            /\ st_recent[s] # "" =>
                /\ st_emitted[s] = st_recent[s]
                /\ st_last[s].status = st_recent[s]
            /\ ~InSnapshot(s) => st_last[s] = st_before[s]
        /\ ~st_repeated

\* a space changed in an earlier call is absent from the last snapshot, in which the
\* other space changed status
C26_Witness ==
    /\ ChangesDetected
    /\ ~InSnapshot(SpaceKey(1))
    /\ st_emitted[SpaceKey(1)] = "occupied"
    /\ st_before[SpaceKey(2)].status = "occupied"
    /\ st_emitted[SpaceKey(2)] = "vacant"
    /\ Len(st_changes) = 1

\* ------------------------------------------------------------ claims on the fan-out's space_id

\* C27: every event of the legacy fan-out carries as space_id the key of its record in
\* `spaces`, also when the record holds a space_id of its own, so the space_ids of the
\* events of one snapshot are pairwise distinct.
C27_SpaceIdIsKey ==
    (Parsed /\ IsMapping /\ ~HasEventsList /\ SpacesOfRecords) =>
        /\ pe_out.raised = ""
        /\ Len(pe_out.events) = Len(pe_raw.d.spaces.list)
        /\ \A i \in DOMAIN pe_out.events :
               pe_out.events[i].space_id = pe_raw.d.spaces.list[i].key
        /\ \A i, j \in DOMAIN pe_out.events :
               pe_out.events[i].space_id = pe_out.events[j].space_id => i = j

\* ------------------------------------------------------------ claims on the case of the status

OccupiedAnyCase(status) == status.t = "str" /\ lower(status.s) = <<"o","c","c","u","p","i","e","d">>

\* C28: an accepted event whose status is 'occupied' in any letter case counts as
\* occupied in the ratio behind the HIGH and CRITICAL alerts, over the batch's items
\* and over the scan of the stored current state.
C28_OccupiedInAnyCase ==
    (Returned /\ ih_resp.statusCode = 200 /\ NoPutFailed) =>
        \A items \in {AcceptedItems} :
        \A occupied \in {Cardinality({i \in DOMAIN items : OccupiedAnyCase(items[i].status)})} :
        /\ "CRITICAL" \in SentTypes <=> 20 * occupied >= 19 * Len(items)
        /\ "HIGH" \in SentTypes <=>
               (5 * occupied >= 4 * Len(items) /\ 20 * occupied < 19 * Len(items))
        /\ current_occupancy(cur_table)[1] =
               Cardinality({s \in Spaces : cur_table[s] # NoItem
                                           /\ OccupiedAnyCase(cur_table[s].status)})

\* ------------------------------------------------------------ claims on the stored timestamp

\* the value validate_data checked for the record: its timestamp, utcnow without one
ValidatedTimestamp(i) == Get(ih_event.batch[i].data, "timestamp", UtcNowIso)

\* C29: every item written to the current-state and history tables carries the
\* timestamp that validate_data checked for its event, which is ISO-8601.
C29_StoredTimestampValidated ==
    (Returned /\ ih_resp.statusCode = 200) =>
        \A i \in DOMAIN ih_event.batch :
            lf_validate_data(SpaceOfEvent(i), ih_event.batch[i].data).ok =>
                /\ SpaceOfEvent(i) \notin put_failed.current =>
                    /\ cur_table[SpaceOfEvent(i)].timestamp = ValidatedTimestamp(i)
                    /\ FromIsoFormatOk(ReplaceZ(cur_table[SpaceOfEvent(i)].timestamp.s))
                /\ \A h \in hist_table : h.space_id = SpaceOfEvent(i) =>
                    /\ h.timestamp = ValidatedTimestamp(i)
                    /\ FromIsoFormatOk(ReplaceZ(h.timestamp.s))

\* ------------------------------------------------------------ claims on concurrent invocations

AllCompleted == cc_pc # <<>> /\ \A i \in Invocations : cc_pc[i] # "put"
Written == {i \in Invocations : cc_pc[i] = "written"}

\* C30, as the code has it: once every invocation has completed, the entry of the
\* space is the complete item of the invocation whose put was done last, whatever the
\* timestamps; it is untouched when no put succeeded.
C30_LastPutWins ==
    AllCompleted =>
        /\ Written = {} => cc_entry = NoEntry
        /\ Written # {} =>
            /\ cc_entry = cc_items[cc_order[Len(cc_order)]]
            /\ cc_order[Len(cc_order)] \in Written

\* both puts succeeded, the older event's put after the newer one's
C30_Witness ==
    /\ AllCompleted
    /\ cc_order = <<1, 2>>
    /\ cc_items[1].timestamp = 3
    /\ cc_items[2].timestamp = 1
    /\ cc_entry = cc_items[2]

\* C30, as stated: once every invocation has completed, the entry of the space is the
\* complete item of one of the events written, the one with the newest timestamp: an
\* older event never replaces a newer one.
C30_NewestWins ==
    (AllCompleted /\ Written # {}) =>
        /\ \E i \in Written : cc_entry = cc_items[i]
        /\ \A i \in Written : cc_items[i].timestamp <= cc_entry.timestamp

====
